---- MODULE Spec2Model ----
(***************************************************************************)
(* A model of the Binance listing bot: the market stream monitors, the     *)
(* risk sizing engine, the weight rate limiter of the exchange client, the *)
(* real-money client's safety gate, the position lifecycle manager, the    *)
(* entry order and its profit and loss, the ceiling of open positions, the *)
(* reconciliation of protection orders, the listing handler, the REST      *)
(* request layer and the WebSocket connection with its polling fallback.   *)
(* Each component has its own variables, initial condition, actions and    *)
(* specification; a component's specification leaves the variables of the  *)
(* other components unchanged.                                             *)
(***************************************************************************)
EXTENDS Integers, Naturals, Sequences, FiniteSets, Bags, TLC

VARIABLES
    \* ---- market stream monitors (WebSocketMonitor, PollingMonitor)
    useTestnet,        \* config.binance.useTestnet
    wsStarted,         \* WebSocketMonitor between start() and stop()
    wsKnownSymbols,    \* WebSocketMonitor.knownSymbols
    pollIsRunning,     \* PollingMonitor.isRunning
    pollKnownSymbols,  \* PollingMonitor.knownSymbols
    wsSeeded,          \* history: the symbols start() seeded
    pollSeeded,        \* history: the same for the polling monitor
    wsEmitted,         \* history: newListing events per symbol since start()
    pollEmitted,       \* history: the same for the polling monitor
    wsRun,             \* history: events per symbol in the current run of updates
    pollRun,           \*   that each contain the symbol (-1: no run)
    lastUpdate,        \* history: the last update processed and what it emitted
    monUpdates,        \* history: number of updates processed
    \* ---- risk sizing engine (RiskManager)
    riskBalance,       \* argument balance
    riskCount,         \* argument activePositionsCount
    riskDone,          \* calculateOrderSize has returned
    riskOrderSize,     \* result of calculateOrderSize, a rational <<n, d>>
    \* ---- weight rate limiter (BinanceClient.weightUsage)
    rlNow,             \* Date.now(), in ms
    wuCurrent,         \* weightUsage.current
    wuLastReset,       \* weightUsage.lastReset
    rlSuspended,       \* calls suspended in checkRateLimit: bag of <<wake time, weight>>
    rlPublicSent,      \* history: public requests dispatched
    rlWindowStart,     \* history: start of the window the limiter is in
    rlWindowWeight,    \* history: weight dispatched since rlWindowStart
    \* ---- real-money client (MainnetClient)
    mnSimulationMode,  \* config.debug.simulationMode
    mnToday,           \* new Date().toDateString(), as a day number
    dsLastReset,       \* dailyStats.lastReset
    dsOrdersPlaced,    \* dailyStats.ordersPlaced
    dsTotalLoss,       \* dailyStats.totalLoss
    dsTotalProfit,     \* dailyStats.totalProfit
    mnLastOrder,       \* history: the last createOrder call and how it ended
    \* ---- position lifecycle (TradingService, Database, APIServer)
    activePositions,   \* TradingService.activePositions: symbol -> position object
    positions,         \* the position objects executeBuy created, by buy call
    dbPositions,       \* the rows of the Position table, by buy call
    buyPc,             \* where each buy call (executeBuy, then setTakeProfitStopLoss) is
    buySymbol,         \* listingData.symbol of each buy call
    tpSl,              \* history: what setTakeProfitStopLoss got and returned
    passPc,            \* where each monitoring timer's checkPositions pass is
    passPosition,      \* the position of the snapshot the pass is working on
    passRuns,          \* history: number of passes started
    manualPc,          \* where the API's manual close is
    manualPosition,    \* the row the manual close fetched: its buy call and its fields
    manualRuns,        \* history: number of manual closes started
    \* ---- entry order and profit and loss (OrderManager, PositionCalculator)
    enSimulation,      \* config.debug.simulationMode
    enOrder,           \* what placeMarketBuyOrder returned
    enFill,            \* history: the price the exchange filled the entry at
    enPosition,        \* the position object executeBuy built
    enRegistered,      \* the position is saved and in activePositions
    enPc,              \* where the buy and the close are
    \* ---- position ceiling (TradingService.maxPositions)
    cpEnvironment,     \* binanceClient.environment
    cpMaxPositions,    \* TradingService.maxPositions, undefined until it is assigned
    cpActive,          \* the symbols in activePositions
    cpPc,              \* where the executeBuy call of each symbol is
    cpOrders,          \* history: entry orders placed, by symbol
    \* ---- reconciliation of a position with its protection orders
    rcTpOrderId,       \* position.tpOrderId is set
    rcSlOrderId,       \* position.slOrderId is set
    rcOco,             \* the two orders are the legs of one OCO order
    rcTp,              \* the take-profit order's status on the exchange
    rcSl,              \* the stop-loss order's status on the exchange
    rcStatus,          \* position.status
    rcOpenOrders,      \* what getOpenOrders returned to the pass
    rcPc,              \* where the checkPositions pass is
    \* ---- listing handler (BinanceListingBot.handleNewListing)
    lsNow,             \* new Date().toISOString(), as a millisecond count
    lsProcessed,       \* BinanceListingBot.processedListings: keys <<symbol, time>>
    lsListings,        \* the symbols of the rows of the listings table
    lsOpen,            \* the symbols with a Position row that is not CLOSED
    lsPc,              \* where each newListing event's handler is
    lsSymbol,          \* listingData.symbol of each event
    lsBuys,            \* history: executeBuy calls made by the handlers, by symbol
    \* ---- REST request layer (BinanceClient.publicRequest, privateRequest)
    rqKind,            \* "public" or "private": which method runs the request
    rqPc,              \* where the request is: idle, dispatch, inflight, returned, thrown
    rqDispatched,      \* history: HTTP calls made for the current request
    rqAttempt,         \* retries pRetry has made of its function so far
    rqLast,            \* status of the response received last (0: none yet)
    \* ---- polling monitor with its check in flight (PollingMonitor)
    pmIsRunning,       \* PollingMonitor.isRunning
    pmInterval,        \* PollingMonitor.pollingInterval is set
    pmKnownSymbols,    \* PollingMonitor.knownSymbols
    pmPending,         \* checkForNewListings calls awaiting get24hrStats
    pmStopped,         \* history: stop() has returned since the last start()
    pmLate,            \* history: newListing events emitted since stop() returned
    pmEvents,          \* history: the newListing events of the last check that finished
    \* ---- the two monitors fed the same snapshots
    paStarted,         \* both monitors have loaded their initial symbols
    paWsKnown,         \* WebSocketMonitor.knownSymbols
    paPollKnown,       \* PollingMonitor.knownSymbols
    paWsEvents,        \* history: newListing events of the push path for the last snapshot
    paPollEvents,      \* history: the same of the polling path
    paWsDelisted,      \* history: symbols of the delisting event of the push path
    paPollDelisted,    \* history: the same of the polling path
    \* ---- environment profiles (EnvironmentManager)
    emConfig,          \* the config of each environment: keys and URLs
    emCurrent,         \* EnvironmentManager.currentEnvironment
    emName,            \* history: the argument of the last switchEnvironment
    emBefore,          \* history: currentEnvironment when that call began
    emOutcome,         \* history: how the call ended: none, returned, threw
    \* ---- switching the trading service between environments
    swClient,          \* environment of TradingService.binanceClient
    swOrderManager,    \* environment of the client of TradingService.orderManager
    swFactoryCurrent,  \* BinanceClientFactory.currentEnvironment
    swMaxPositions,    \* TradingService.maxPositions
    swAccountInfo,     \* environment TradingService.accountInfo was read from
    swIsActive,        \* TradingService.isActive
    swInterval,        \* TradingService.positionMonitorInterval is set
    swPc,              \* where switchEnvironment is: idle, client, account
    swWasActive,       \* wasActive of the call in progress
    swName,            \* environmentName of the call
    swBefore,          \* history: client, orderManager, isActive, interval at the call
    swOutcome,         \* history: how the last call ended: none, returned, threw
    \* ---- orders of the order manager on the real-money profile
    odClient,          \* class of OrderManager.binanceClient
    odSimulation,      \* config.debug.simulationMode
    odLast,            \* history: the last order: method, notional, audit records, dispatch
    odOrders,          \* history: number of orders dispatched to the exchange
    \* ---- sizing of the entry order and the risk test (executeBuy, RiskManager)
    gtEnvironment,     \* binanceClient.environment
    gtBalance,         \* getAvailableBalance(): the free quote balance
    gtCount,           \* activePositions.size
    gtPc,              \* where executeBuy is
    gtOrderSize,       \* orderSize executeBuy computed
    gtPlaced,          \* history: the market order was sent
    \* ---- quantity of the entry order against the filters of the symbol
    fqOrderSize,       \* orderSize of executeBuy, in the quote asset
    fqPrice,           \* currentPrice
    fqSymbolInfo,      \* the LOT_SIZE and MIN_NOTIONAL filters of the symbol
    fqPc,              \* where executeBuy is
    fqQuantity,        \* what calculateQuantity returned
    fqSubmitted,       \* history: the market order was sent with fqQuantity
    \* ---- failures of the entry path (executeBuy and its catch block)
    byActive,          \* keys of activePositions
    byStored,          \* symbols of the rows of the Position table
    byPc,              \* where the executeBuy call is
    bySymbol,          \* listingData.symbol of the call
    byBefore,          \* history: activePositions and the table when the call began
    byOutcome,         \* history: how the last call ended, and where it failed
    bySaveErrors,      \* history: saveError calls of the last call
    byErrorRows,       \* rows of the Error table
    \* ---- one checkPositions pass over the snapshot of activePositions
    sweepActive,       \* keys of activePositions
    sweepSnapshot,     \* positions: Array.from(activePositions.values())
    sweepIndex,        \* the position the for loop is at
    sweepChecked,      \* history: positions the pass has checked
    sweepFailed,       \* history: positions whose check threw in the pass
    sweepDue,          \* history: positions that failed in the pass before and were still open
    sweepPc,           \* where the pass is
    sweepPasses,       \* history: passes that have ended
    \* ---- interval timers of the position monitoring
    mtLive,            \* interval timers that exist (setInterval without clearInterval)
    mtField,           \* positionMonitorInterval: a timer, or NoTimer
    mtCreated,         \* history: timers created so far
    mtIsActive,        \* isActive
    mtPassSinceStop,   \* history: a pass has started since the last pause() or stop()
    mtLastCall,        \* history: the last of initialize, start, pause, resume, stop
    \* ---- cost of the entry order against the size the risk settings allow
    ctEnvironment,     \* binanceClient.environment
    ctBalance,         \* getAvailableBalance(): the free quote balance
    ctCount,           \* activePositions.size
    ctPrice,           \* currentPrice
    ctSymbolInfo,      \* the LOT_SIZE and MIN_NOTIONAL filters of the symbol
    ctPc,              \* where executeBuy is
    ctOrderSize,       \* orderSize executeBuy computed
    ctQuantity,        \* quantity executeBuy computed
    ctSubmitted,       \* history: the market order was sent with ctQuantity
    \* ---- order requests under the simulation-mode flag
    smSimulation,      \* config.debug.simulationMode
    smEnvironment,     \* the profile of the client the order manager holds
    smUseOCO,          \* config.trading.useOCO
    smPc,              \* "idle", "executeBuy", "setTakeProfitStopLoss", "open"
    smRounds,          \* history: listings and buys started so far
    smCreates,         \* history: order-creating requests sent to the exchange
    smCancels,         \* history: order-cancelling requests sent to the exchange
    smMocked,          \* history: mocked results the order manager returned
    smReads,           \* history: price reads sent to the exchange
    \* ---- the profile names of the client factory and the environment manager
    pfValid,           \* whether validateEnvironment accepts each profile
    pfManager,         \* EnvironmentManager.currentEnvironment
    pfFactory,         \* BinanceClientFactory.currentEnvironment, or NoProfile
    pfBot,             \* BinanceListingBot.currentEnvironment.name, or NoProfile
    pfPc,              \* "new", "ready", "failed"
    pfName,            \* history: the profile asked for by the last switch
    pfOutcome,         \* history: how the last bot switch ended: none, returned, threw
    pfCreated,         \* history: profile of the client createClientForEnvironment returned
    pfSwitches,        \* history: switches and client creations so far
    \* ---- WebSocket connection (WebSocketMonitor) and the fallback to polling
    skMode,            \* the monitor initializeMonitoring built: websocket, polling, none
    skPollRunning,     \* monitors.polling.isRunning, its polling timer set
    skSocket,          \* this.ws: none, connecting, open, closing (terminated), closed
    skIsConnected,     \* WebSocketMonitor.isConnected
    skReconnectAttempts, \* WebSocketMonitor.reconnectAttempts
    skLastHeartbeat,   \* WebSocketMonitor.lastHeartbeat (NoHeartbeat: null)
    skHeartbeatOn,     \* the heartbeat interval of startHeartbeat is set
    skStarting,        \* start() is awaiting its connect()
    skNow,             \* Date.now(), in milliseconds
    skQuietSince,      \* history: when the connection opened or was pinged last
    skTimers,          \* reconnect timers of handleReconnect that are pending
    skTimeouts,        \* connection timeout timers of connect() that are pending
    skFailed,          \* history: reconnectFailed has been emitted
    skStopped,         \* history: stop() has returned since the last start()
    skDelay,           \* history: the delay of the reconnect timer set last
    skOwnTimeout,      \* the timeout of the connect() that made this.ws is pending, its promise too
    skSettled          \* pending connection timeouts whose promise the open event resolved

monitorVars == <<useTestnet, wsStarted, wsKnownSymbols, pollIsRunning,
                 pollKnownSymbols, wsSeeded, pollSeeded, wsEmitted, pollEmitted, wsRun, pollRun,
                 lastUpdate, monUpdates>>
riskVars == <<riskBalance, riskCount, riskDone, riskOrderSize>>

limiterVars == <<rlNow, wuCurrent, wuLastReset, rlSuspended, rlPublicSent,
                 rlWindowStart, rlWindowWeight>>

mainnetVars == <<mnSimulationMode, mnToday, dsLastReset, dsOrdersPlaced,
                 dsTotalLoss, dsTotalProfit, mnLastOrder>>

tradingVars == <<activePositions, positions, dbPositions, buyPc, buySymbol, tpSl,
                 passPc, passPosition, passRuns, manualPc, manualPosition, manualRuns>>

entryVars == <<enSimulation, enOrder, enFill, enPosition, enRegistered, enPc>>
ceilingVars == <<cpEnvironment, cpMaxPositions, cpActive, cpPc, cpOrders>>
reconcileVars == <<rcTpOrderId, rcSlOrderId, rcOco, rcTp, rcSl, rcStatus,
                   rcOpenOrders, rcPc>>
listingVars == <<lsNow, lsProcessed, lsListings, lsOpen, lsPc, lsSymbol,
                 lsBuys>>
requestVars == <<rqKind, rqPc, rqDispatched, rqAttempt, rqLast>>
pollingVars == <<pmIsRunning, pmInterval, pmKnownSymbols, pmPending,
                 pmStopped, pmLate, pmEvents>>
parityVars == <<paStarted, paWsKnown, paPollKnown, paWsEvents, paPollEvents,
                paWsDelisted, paPollDelisted>>
environmentVars == <<emConfig, emCurrent, emName, emBefore, emOutcome>>
switchVars == <<swClient, swOrderManager, swFactoryCurrent, swMaxPositions,
                swAccountInfo, swIsActive, swInterval, swPc, swWasActive,
                swName, swBefore, swOutcome>>
auditVars == <<odClient, odSimulation, odLast, odOrders>>
gateVars == <<gtEnvironment, gtBalance, gtCount, gtPc, gtOrderSize, gtPlaced>>
filterVars == <<fqOrderSize, fqPrice, fqSymbolInfo, fqPc, fqQuantity,
                fqSubmitted>>
buyVars == <<byActive, byStored, byPc, bySymbol, byBefore, byOutcome,
             bySaveErrors, byErrorRows>>
sweepVars == <<sweepActive, sweepSnapshot, sweepIndex, sweepChecked,
               sweepFailed, sweepDue, sweepPc, sweepPasses>>
timerVars == <<mtLive, mtField, mtCreated, mtIsActive, mtPassSinceStop,
               mtLastCall>>
costVars == <<ctEnvironment, ctBalance, ctCount, ctPrice, ctSymbolInfo, ctPc,
              ctOrderSize, ctQuantity, ctSubmitted>>
simVars == <<smSimulation, smEnvironment, smUseOCO, smPc, smRounds,
             smCreates, smCancels, smMocked, smReads>>
profileVars == <<pfValid, pfManager, pfFactory, pfBot, pfPc, pfName,
                 pfOutcome, pfCreated, pfSwitches>>
socketVars == <<skMode, skPollRunning, skSocket, skIsConnected,
                skReconnectAttempts, skLastHeartbeat, skHeartbeatOn,
                skStarting, skNow, skQuietSince, skTimers, skTimeouts,
                skFailed, skStopped, skDelay, skOwnTimeout, skSettled>>

coreVars == <<monitorVars, riskVars, limiterVars, mainnetVars, tradingVars>>
auxVars == <<entryVars, ceilingVars, reconcileVars, listingVars, requestVars,
             pollingVars, parityVars, environmentVars, switchVars, auditVars,
             gateVars, filterVars, buyVars, sweepVars, timerVars, costVars,
             simVars, profileVars, socketVars>>
vars == <<coreVars, auxVars>>

\* what an action of one component leaves alone: the other components
otherThanMonitor == <<riskVars, limiterVars, mainnetVars, tradingVars, auxVars>>
otherThanRisk == <<monitorVars, limiterVars, mainnetVars, tradingVars, auxVars>>
otherThanLimiter == <<monitorVars, riskVars, mainnetVars, tradingVars, auxVars>>
otherThanMainnet == <<monitorVars, riskVars, limiterVars, tradingVars, auxVars>>
otherThanTrading == <<monitorVars, riskVars, limiterVars, mainnetVars, auxVars>>
otherThanEntry == <<coreVars, ceilingVars, reconcileVars, listingVars,
                    requestVars, pollingVars, parityVars, environmentVars,
                    switchVars, auditVars, gateVars, filterVars, buyVars,
                    sweepVars, timerVars, costVars, simVars, profileVars,
                    socketVars>>
otherThanCeiling == <<coreVars, entryVars, reconcileVars, listingVars,
                      requestVars, pollingVars, parityVars, environmentVars,
                      switchVars, auditVars, gateVars, filterVars, buyVars,
                      sweepVars, timerVars, costVars, simVars, profileVars,
                      socketVars>>
otherThanReconcile == <<coreVars, entryVars, ceilingVars, listingVars,
                        requestVars, pollingVars, parityVars,
                        environmentVars, switchVars, auditVars, gateVars,
                        filterVars, buyVars, sweepVars, timerVars, costVars,
                        simVars, profileVars, socketVars>>
otherThanListing == <<coreVars, entryVars, ceilingVars, reconcileVars,
                      requestVars, pollingVars, parityVars, environmentVars,
                      switchVars, auditVars, gateVars, filterVars, buyVars,
                      sweepVars, timerVars, costVars, simVars, profileVars,
                      socketVars>>
otherThanRequest == <<coreVars, entryVars, ceilingVars, reconcileVars,
                      listingVars, pollingVars, parityVars, environmentVars,
                      switchVars, auditVars, gateVars, filterVars, buyVars,
                      sweepVars, timerVars, costVars, simVars, profileVars,
                      socketVars>>
otherThanPolling == <<coreVars, entryVars, ceilingVars, reconcileVars,
                      listingVars, requestVars, parityVars, environmentVars,
                      switchVars, auditVars, gateVars, filterVars, buyVars,
                      sweepVars, timerVars, costVars, simVars, profileVars,
                      socketVars>>
otherThanParity == <<coreVars, entryVars, ceilingVars, reconcileVars,
                     listingVars, requestVars, pollingVars, environmentVars,
                     switchVars, auditVars, gateVars, filterVars, buyVars,
                     sweepVars, timerVars, costVars, simVars, profileVars,
                     socketVars>>
otherThanEnvironment == <<coreVars, entryVars, ceilingVars, reconcileVars,
                          listingVars, requestVars, pollingVars, parityVars,
                          switchVars, auditVars, gateVars, filterVars,
                          buyVars, sweepVars, timerVars, costVars, simVars,
                          profileVars, socketVars>>
otherThanSwitch == <<coreVars, entryVars, ceilingVars, reconcileVars,
                     listingVars, requestVars, pollingVars, parityVars,
                     environmentVars, auditVars, gateVars, filterVars,
                     buyVars, sweepVars, timerVars, costVars, simVars,
                     profileVars, socketVars>>
otherThanAudit == <<coreVars, entryVars, ceilingVars, reconcileVars,
                    listingVars, requestVars, pollingVars, parityVars,
                    environmentVars, switchVars, gateVars, filterVars,
                    buyVars, sweepVars, timerVars, costVars, simVars,
                    profileVars, socketVars>>
otherThanGate == <<coreVars, entryVars, ceilingVars, reconcileVars,
                   listingVars, requestVars, pollingVars, parityVars,
                   environmentVars, switchVars, auditVars, filterVars,
                   buyVars, sweepVars, timerVars, costVars, simVars,
                   profileVars, socketVars>>
otherThanFilter == <<coreVars, entryVars, ceilingVars, reconcileVars,
                     listingVars, requestVars, pollingVars, parityVars,
                     environmentVars, switchVars, auditVars, gateVars,
                     buyVars, sweepVars, timerVars, costVars, simVars,
                     profileVars, socketVars>>
otherThanBuy == <<coreVars, entryVars, ceilingVars, reconcileVars,
                  listingVars, requestVars, pollingVars, parityVars,
                  environmentVars, switchVars, auditVars, gateVars,
                  filterVars, sweepVars, timerVars, costVars, simVars,
                  profileVars, socketVars>>
otherThanSweep == <<coreVars, entryVars, ceilingVars, reconcileVars,
                    listingVars, requestVars, pollingVars, parityVars,
                    environmentVars, switchVars, auditVars, gateVars,
                    filterVars, buyVars, timerVars, costVars, simVars,
                    profileVars, socketVars>>
otherThanTimer == <<coreVars, entryVars, ceilingVars, reconcileVars,
                    listingVars, requestVars, pollingVars, parityVars,
                    environmentVars, switchVars, auditVars, gateVars,
                    filterVars, buyVars, sweepVars, costVars, simVars,
                    profileVars, socketVars>>
otherThanCost == <<coreVars, entryVars, ceilingVars, reconcileVars,
                   listingVars, requestVars, pollingVars, parityVars,
                   environmentVars, switchVars, auditVars, gateVars,
                   filterVars, buyVars, sweepVars, timerVars, simVars,
                   profileVars, socketVars>>
otherThanSim == <<coreVars, entryVars, ceilingVars, reconcileVars,
                  listingVars, requestVars, pollingVars, parityVars,
                  environmentVars, switchVars, auditVars, gateVars,
                  filterVars, buyVars, sweepVars, timerVars, costVars,
                  profileVars, socketVars>>
otherThanProfile == <<coreVars, entryVars, ceilingVars, reconcileVars,
                      listingVars, requestVars, pollingVars, parityVars,
                      environmentVars, switchVars, auditVars, gateVars,
                      filterVars, buyVars, sweepVars, timerVars, costVars,
                      simVars, socketVars>>
otherThanSocket == <<coreVars, entryVars, ceilingVars, reconcileVars,
                     listingVars, requestVars, pollingVars, parityVars,
                     environmentVars, switchVars, auditVars, gateVars,
                     filterVars, buyVars, sweepVars, timerVars, costVars,
                     simVars, profileVars>>

(***************************************************************************)
(* Bounds of the model.                                                    *)
(***************************************************************************)
MaxTickers == 2
MaxUpdates == 3
MaxBalanceSteps == 30
BalanceStep == 100
MaxCount == 4
TickMs == 30000
MaxTicks == 2
MaxSuspended == 2
MaxPublic == 1
MaxDays == 1
MaxOrders == 1
MaxLossTotal == 105
MaxProfitTotal == 10
MaxBuys == 2
MaxPassRuns == 2
MaxManualRuns == 1
MaxCloses == 2
MaxSymbols == 3
ConfiguredMaxPositions == 2
MaxEvents == 2
MaxMs == 1
MaxDispatches == 6
MaxTimers == 2
MaxBeats == 4
MaxPending == 2
MaxPlaced == 3
MaxErrorRows == 2
MaxSweeps == 2
MaxIntervals == 4
MaxRounds == 2
MaxSwitches == 3

(***************************************************************************)
(* Symbols and configuration.                                              *)
(***************************************************************************)
Symbols == {"BTCUSDT", "NEWUSDT", "USDCUSDT", "ETHBTC"}

QuoteAsset == "USDT"

\* symbol.endsWith(suffix), tabulated for the symbols of the model
EndsWith(symbol, suffix) ==
    CASE suffix = "USDT" -> symbol \in {"BTCUSDT", "NEWUSDT", "USDCUSDT"}
      [] suffix = "BTC"  -> symbol \in {"ETHBTC"}
      [] OTHER           -> FALSE

\* the baseAsset field of a symbol of exchangeInfo
BaseAsset(symbol) ==
    CASE symbol = "BTCUSDT"  -> "BTC"
      [] symbol = "NEWUSDT"  -> "NEW"
      [] symbol = "USDCUSDT" -> "USDC"
      [] symbol = "ETHBTC"   -> "ETH"

Stablecoins == {"USDT", "USDC", "BUSD", "TUSD", "USDP", "DAI", "FRAX", "GUSD",
                "USDJ", "EUR", "GBP", "AUD"}
PollingStablecoins == {"USDC", "BUSD", "TUSD", "USDP", "DAI"}
ExcludeStablecoins == TRUE
ExcludeTokens == {}

\* sequences over S of length at most n
SeqsUpTo(S, n) == UNION {[1..k -> S] : k \in 0..n}

SeqToSet(s) == {s[i] : i \in 1..Len(s)}

NoCounts == [s \in Symbols |-> 0]
NoRuns == [s \in Symbols |-> -1]
NoUpdate == [src |-> "none", before |-> {}, tickers |-> <<>>, events |-> <<>>,
             delisted |-> {}, after |-> {}]

(***************************************************************************)
(* WebSocketMonitor                                                        *)
(***************************************************************************)
\* loadInitialSymbols: the TRADING symbols of exchangeInfo, filtered
WsLoadInitialSymbols(trading) ==
    {s \in trading :
        /\ EndsWith(s, QuoteAsset)
        /\ ~(ExcludeStablecoins /\ BaseAsset(s) \in Stablecoins)
        /\ BaseAsset(s) \notin ExcludeTokens}

\* one iteration of the loop of handleMiniTickerArray over a quote-asset symbol
MiniTickerStep_NoAdd(acc, symbol) ==
    [current |-> acc.current \cup {symbol},
     events  |-> IF symbol \notin acc.known THEN Append(acc.events, symbol)
                 ELSE acc.events,
     known   |-> acc.known]

MiniTickerStep(acc, symbol) ==
    [current |-> acc.current \cup {symbol},
     events  |-> IF symbol \notin acc.known THEN Append(acc.events, symbol)
                 ELSE acc.events,
     known   |-> acc.known \cup {symbol}]

RECURSIVE ScanMiniTickers(_, _)
ScanMiniTickers(tickers, acc) ==
    IF tickers = <<>> THEN acc
    ELSE IF ~EndsWith(Head(tickers), QuoteAsset)
         THEN ScanMiniTickers(Tail(tickers), acc)
         ELSE ScanMiniTickers(Tail(tickers), MiniTickerStep(acc, Head(tickers)))

\* the known symbols missing from the update are removed as delisted
MiniTickerDelisted(scan) == {s \in scan.known : s \notin scan.current}

\* handleMiniTickerArray(tickers): [known, events, delisted]
MiniTickerResult(known, tickers) ==
    LET scan == ScanMiniTickers(tickers,
                    [current |-> {}, events |-> <<>>, known |-> known])
        delisted == MiniTickerDelisted(scan)
    IN [known |-> scan.known \ delisted, events |-> scan.events,
        delisted |-> delisted]

\* handleTestnetTicker(data): [known, events]
TestnetTickerResult(known, symbol) ==
    IF ~EndsWith(symbol, QuoteAsset) THEN [known |-> known, events |-> <<>>]
    ELSE IF symbol \notin known
         THEN [known |-> known \cup {symbol}, events |-> <<symbol>>]
         ELSE [known |-> known, events |-> <<>>]

(***************************************************************************)
(* PollingMonitor                                                          *)
(***************************************************************************)
PollLoadInitialSymbols(trading) ==
    {s \in trading :
        /\ EndsWith(s, QuoteAsset)
        /\ ~(ExcludeStablecoins /\ BaseAsset(s) \in PollingStablecoins)
        /\ BaseAsset(s) \notin ExcludeTokens}

RECURSIVE ScanPollTickers(_, _)
ScanPollTickers(tickers, acc) ==
    IF tickers = <<>> THEN acc
    ELSE IF ~EndsWith(Head(tickers), QuoteAsset)
         THEN ScanPollTickers(Tail(tickers), acc)
         ELSE IF Head(tickers) \notin acc.known
              THEN ScanPollTickers(Tail(tickers),
                       [known  |-> acc.known \cup {Head(tickers)},
                        events |-> Append(acc.events, Head(tickers))])
              ELSE ScanPollTickers(Tail(tickers), acc)

\* checkForNewListings, once the 24h ticker snapshot has arrived
PollResult(known, tickers) ==
    ScanPollTickers(tickers, [known |-> known, events |-> <<>>])

(***************************************************************************)
(* History of the events a monitor emitted.                                *)
(***************************************************************************)
Occurrences(events, s) == Cardinality({i \in 1..Len(events) : events[i] = s})

CountEvents(emitted, events) ==
    [s \in Symbols |-> emitted[s] + Occurrences(events, s)]

\* A run of a symbol starts with an update that contains the symbol while it
\* is unknown, goes on while the updates contain it, and ends with the first
\* update that does not.
RunAfter(run, known, tickers, events) ==
    [s \in Symbols |->
        IF s \notin SeqToSet(tickers) \/ ~EndsWith(s, QuoteAsset) THEN -1
        ELSE IF run[s] >= 0 THEN run[s] + Occurrences(events, s)
        ELSE IF s \notin known THEN Occurrences(events, s)
        ELSE -1]

(***************************************************************************)
(* Actions of the monitors.                                                *)
(***************************************************************************)
MonitorInit ==
    /\ useTestnet \in BOOLEAN
    /\ wsStarted = FALSE
    /\ wsKnownSymbols = {}
    /\ pollIsRunning = FALSE
    /\ pollKnownSymbols = {}
    /\ wsSeeded = {}
    /\ pollSeeded = {}
    /\ wsEmitted = NoCounts
    /\ pollEmitted = NoCounts
    /\ wsRun = NoRuns
    /\ pollRun = NoRuns
    /\ lastUpdate = NoUpdate
    /\ monUpdates = 0

\* WebSocketMonitor.start(): seeds the known symbols and connects.  The bot
\* builds one monitor (initializeMonitoring) and runs the polling monitor as
\* the fallback of a failed WebSocket monitor, so one monitor is fed at a time.
WsStart(trading) ==
    /\ ~wsStarted /\ ~pollIsRunning
    /\ wsStarted' = TRUE
    /\ wsKnownSymbols' = WsLoadInitialSymbols(trading)
    /\ wsSeeded' = WsLoadInitialSymbols(trading)
    /\ UNCHANGED <<useTestnet, pollIsRunning, pollKnownSymbols, pollSeeded,
                   wsEmitted, pollEmitted, wsRun, pollRun, lastUpdate,
                   monUpdates>>
    /\ UNCHANGED otherThanMonitor

\* WebSocketMonitor.stop(); the histories of the run end with it
WsStop ==
    /\ wsStarted
    /\ wsStarted' = FALSE
    /\ wsKnownSymbols' = {}
    /\ wsSeeded' = {}
    /\ wsEmitted' = NoCounts
    /\ wsRun' = NoRuns
    /\ lastUpdate' = NoUpdate
    /\ UNCHANGED <<useTestnet, pollIsRunning, pollKnownSymbols, pollSeeded,
                   pollEmitted, pollRun, monUpdates>>
    /\ UNCHANGED otherThanMonitor

\* handleMessage -> handleMiniTickerArray (mainnet stream)
HandleMiniTickerArray(tickers) ==
    /\ wsStarted /\ ~useTestnet
    /\ monUpdates < MaxUpdates
    /\ LET r == MiniTickerResult(wsKnownSymbols, tickers) IN
        /\ wsKnownSymbols' = r.known
        /\ wsEmitted' = CountEvents(wsEmitted, r.events)
        /\ wsRun' = RunAfter(wsRun, wsKnownSymbols, tickers, r.events)
        /\ lastUpdate' = [src |-> "miniTicker", before |-> wsKnownSymbols,
                          tickers |-> tickers, events |-> r.events,
                          delisted |-> r.delisted, after |-> r.known]
    /\ monUpdates' = monUpdates + 1
    /\ UNCHANGED <<useTestnet, wsStarted, pollIsRunning, pollKnownSymbols,
                   wsSeeded, pollSeeded, pollEmitted, pollRun>>
    /\ UNCHANGED otherThanMonitor

\* handleMessage -> handleTestnetTicker (testnet stream, one ticker a message)
HandleTestnetTicker(symbol) ==
    /\ wsStarted /\ useTestnet
    /\ monUpdates < MaxUpdates
    /\ LET r == TestnetTickerResult(wsKnownSymbols, symbol) IN
        /\ wsKnownSymbols' = r.known
        /\ wsEmitted' = CountEvents(wsEmitted, r.events)
        /\ wsRun' = RunAfter(wsRun, wsKnownSymbols, <<symbol>>, r.events)
        /\ lastUpdate' = [src |-> "testnetTicker", before |-> wsKnownSymbols,
                          tickers |-> <<symbol>>, events |-> r.events,
                          delisted |-> {}, after |-> r.known]
    /\ monUpdates' = monUpdates + 1
    /\ UNCHANGED <<useTestnet, wsStarted, pollIsRunning, pollKnownSymbols,
                   wsSeeded, pollSeeded, pollEmitted, pollRun>>
    /\ UNCHANGED otherThanMonitor

\* PollingMonitor.start()
PollStart(trading) ==
    /\ ~pollIsRunning /\ ~wsStarted
    /\ pollIsRunning' = TRUE
    /\ pollKnownSymbols' = PollLoadInitialSymbols(trading)
    /\ pollSeeded' = PollLoadInitialSymbols(trading)
    /\ UNCHANGED <<useTestnet, wsStarted, wsKnownSymbols, wsSeeded, wsEmitted,
                   pollEmitted, wsRun, pollRun, lastUpdate, monUpdates>>
    /\ UNCHANGED otherThanMonitor

\* PollingMonitor.stop(); the histories of the run end with it
PollStop ==
    /\ pollIsRunning
    /\ pollIsRunning' = FALSE
    /\ pollKnownSymbols' = {}
    /\ pollSeeded' = {}
    /\ pollEmitted' = NoCounts
    /\ pollRun' = NoRuns
    /\ lastUpdate' = NoUpdate
    /\ UNCHANGED <<useTestnet, wsStarted, wsKnownSymbols, wsSeeded, wsEmitted,
                   wsRun, monUpdates>>
    /\ UNCHANGED otherThanMonitor

\* PollingMonitor.checkForNewListings, on a 24h ticker snapshot
CheckForNewListings(tickers) ==
    /\ pollIsRunning
    /\ monUpdates < MaxUpdates
    /\ LET r == PollResult(pollKnownSymbols, tickers) IN
        /\ pollKnownSymbols' = r.known
        /\ pollEmitted' = CountEvents(pollEmitted, r.events)
        /\ pollRun' = RunAfter(pollRun, pollKnownSymbols, tickers, r.events)
        /\ lastUpdate' = [src |-> "polling", before |-> pollKnownSymbols,
                          tickers |-> tickers, events |-> r.events,
                          delisted |-> {}, after |-> r.known]
    /\ monUpdates' = monUpdates + 1
    /\ UNCHANGED <<useTestnet, wsStarted, wsKnownSymbols, pollIsRunning,
                   wsSeeded, pollSeeded, wsEmitted, wsRun>>
    /\ UNCHANGED otherThanMonitor

MonitorNext ==
    \/ \E trading \in SUBSET Symbols : WsStart(trading)
    \/ WsStop
    \/ \E tickers \in SeqsUpTo(Symbols, MaxTickers) : HandleMiniTickerArray(tickers)
    \/ \E symbol \in Symbols : HandleTestnetTicker(symbol)
    \/ \E trading \in SUBSET Symbols : PollStart(trading)
    \/ PollStop
    \/ \E tickers \in SeqsUpTo(Symbols, MaxTickers) : CheckForNewListings(tickers)

(***************************************************************************)
(* RiskManager.  Amounts are rationals <<numerator, denominator>> with a   *)
(* positive denominator, so that the fractions of the configuration are    *)
(* exact.                                                                  *)
(***************************************************************************)
BaseOrderSize == 10
MaxOrderSize == 100
MaxAccountRiskPercent == <<2, 100>>
MaxPositionRiskPercent == <<1, 100>>
UseOfBalance == <<95, 100>>

RECURSIVE GCD(_, _)
GCD(a, b) == IF b = 0 THEN a ELSE GCD(b, a % b)

\* lowest terms; the numerators of this module are never negative
RNorm(a) == LET g == GCD(a[1], a[2]) IN <<a[1] \div g, a[2] \div g>>
RInt(n) == <<n, 1>>
RMul(a, b) == RNorm(<<a[1] * b[1], a[2] * b[2]>>)
RDivInt(a, n) == RNorm(<<a[1], a[2] * n>>)
RLeq(a, b) == a[1] * b[2] <= b[1] * a[2]
REq(a, b) == a[1] * b[2] = b[1] * a[2]
RMin(a, b) == IF RLeq(a, b) THEN a ELSE b

\* a plausible slip: the position cap taken from the account risk fraction
CalculateOrderSize_AccountCap(balance, activePositionsCount) ==
    LET availableBalance == RMul(RInt(balance), UseOfBalance)
        maxRiskAmount == RMul(availableBalance, MaxAccountRiskPercent)
        maxPositionSize == RMul(availableBalance, MaxAccountRiskPercent)
        limited == RMin(RMin(RInt(BaseOrderSize), maxPositionSize),
                        RDivInt(maxRiskAmount, activePositionsCount + 1))
        capped == RMin(limited, RInt(MaxOrderSize))
    IN RMin(capped, availableBalance)

\* calculateOrderSize(balance, activePositionsCount)
CalculateOrderSize(balance, activePositionsCount) ==
    LET availableBalance == RMul(RInt(balance), UseOfBalance)
        maxRiskAmount == RMul(availableBalance, MaxAccountRiskPercent)
        maxPositionSize == RMul(availableBalance, MaxPositionRiskPercent)
        limited == RMin(RMin(RInt(BaseOrderSize), maxPositionSize),
                        RDivInt(maxRiskAmount, activePositionsCount + 1))
        capped == RMin(limited, RInt(MaxOrderSize))
    IN RMin(capped, availableBalance)

RiskInit ==
    /\ riskBalance \in {k * BalanceStep : k \in 0..MaxBalanceSteps}
    /\ riskCount \in 0..MaxCount
    /\ riskDone = FALSE
    /\ riskOrderSize = RInt(0)

\* a call of calculateOrderSize on the drawn arguments
RiskCalculate ==
    /\ ~riskDone
    /\ riskDone' = TRUE
    /\ riskOrderSize' = CalculateOrderSize(riskBalance, riskCount)
    /\ UNCHANGED <<riskBalance, riskCount>>
    /\ UNCHANGED otherThanRisk

RiskNext == RiskCalculate

(***************************************************************************)
(* BinanceClient's weight rate limiter.  A call of checkRateLimit runs     *)
(* without interruption up to its await; a suspended call resumes at any   *)
(* time from the expiry of its timer on.                                   *)
(***************************************************************************)
WeightLimit == 1200
WindowMs == 60000
PublicWeight == 1
PrivateWeight == 10

\* history: the window restarts when the limiter resets its counter a full
\* window after the window's start
WindowAfterReset(now) ==
    IF now - rlWindowStart >= WindowMs
    THEN [start |-> now, weight |-> 0]
    ELSE [start |-> rlWindowStart, weight |-> rlWindowWeight]

LimiterInit ==
    /\ rlNow = 0
    /\ wuCurrent = 0
    /\ wuLastReset = 0
    /\ rlSuspended = EmptyBag
    /\ rlPublicSent = 0
    /\ rlWindowStart = 0
    /\ rlWindowWeight = 0

\* time passes
RlTick ==
    /\ rlNow < MaxTicks * TickMs
    /\ rlNow' = rlNow + TickMs
    /\ UNCHANGED <<wuCurrent, wuLastReset, rlSuspended, rlPublicSent,
                   rlWindowStart, rlWindowWeight>>
    /\ UNCHANGED otherThanLimiter

\* checkRateLimit(weight) from its entry to its return or to its await
CheckRateLimit(weight) ==
    LET now == rlNow
        expired == now - wuLastReset > WindowMs
        current == IF expired THEN 0 ELSE wuCurrent
        lastReset == IF expired THEN now ELSE wuLastReset
        window == IF expired THEN WindowAfterReset(now)
                  ELSE [start |-> rlWindowStart, weight |-> rlWindowWeight]
    IN IF current + weight >= WeightLimit
       THEN /\ BagCardinality(rlSuspended) < MaxSuspended
            /\ rlSuspended' = rlSuspended (+)
                   SetToBag({<<now + (WindowMs - (now - lastReset)), weight>>})
            /\ wuCurrent' = current
            /\ wuLastReset' = lastReset
            /\ rlWindowStart' = window.start
            /\ rlWindowWeight' = window.weight
       ELSE /\ wuCurrent' = current + weight
            /\ wuLastReset' = lastReset
            /\ rlWindowStart' = window.start
            /\ rlWindowWeight' = window.weight + weight
            /\ UNCHANGED rlSuspended

\* publicRequest: checkRateLimit with the weight of a public endpoint
PublicRequest ==
    /\ rlPublicSent < MaxPublic
    /\ CheckRateLimit(PublicWeight)
    /\ rlPublicSent' = rlPublicSent + 1
    /\ UNCHANGED rlNow
    /\ UNCHANGED otherThanLimiter

\* privateRequest: checkRateLimit with the weight of a private endpoint
PrivateRequest ==
    /\ CheckRateLimit(PrivateWeight)
    /\ UNCHANGED <<rlNow, rlPublicSent>>
    /\ UNCHANGED otherThanLimiter

\* the calls that can be waiting: the end of a window and a weight
SuspendedCalls ==
    {<<k * TickMs + WindowMs, weight>> :
        k \in 0..MaxTicks, weight \in {PublicWeight, PrivateWeight}}

\* checkRateLimit after its await: the counter restarts and the call is counted
RateLimitResume(call) ==
    /\ BagIn(call, rlSuspended)
    /\ call[1] <= rlNow
    /\ rlSuspended' = rlSuspended (-) SetToBag({call})
    /\ wuCurrent' = 0 + call[2]
    /\ wuLastReset' = rlNow
    /\ LET window == WindowAfterReset(rlNow) IN
        /\ rlWindowStart' = window.start
        /\ rlWindowWeight' = window.weight + call[2]
    /\ UNCHANGED <<rlNow, rlPublicSent>>
    /\ UNCHANGED otherThanLimiter

LimiterNext ==
    \/ RlTick
    \/ PublicRequest
    \/ PrivateRequest
    \/ \E call \in SuspendedCalls : RateLimitResume(call)

(***************************************************************************)
(* MainnetClient: the safety gate in front of createOrder and the daily    *)
(* statistics it reads.  dailyStats.totalVolume is written but never read  *)
(* by the gate and is left out.  A price of 0 stands for an order without  *)
(* a price.                                                                *)
(***************************************************************************)
MaxOrderValue == MaxOrderSize
DailyLossLimit == BaseOrderSize * 10

OrderTypes == {"MARKET", "LIMIT"}
Quantities == {10, 11}
Prices == {0, 1, 10}
OrderParams == {o \in [type : OrderTypes, quantity : Quantities, price : Prices] :
                   o.type = "LIMIT" => o.price > 0}
PnLs == {-95, -10, 10}
NoOrder == [type |-> "none", quantity |-> 0, price |-> 0, lossBefore |-> 0,
            outcome |-> "none"]

\* the daily statistics as resetDailyStatsIfNeeded leaves them
DailyStatsToday ==
    IF dsLastReset # mnToday
    THEN [ordersPlaced |-> 0, totalLoss |-> 0, totalProfit |-> 0]
    ELSE [ordersPlaced |-> dsOrdersPlaced, totalLoss |-> dsTotalLoss,
          totalProfit |-> dsTotalProfit]

OrderValue(params) == params.quantity * params.price

\* validateOrderSafety(params).isValid, read after the reset of the statistics
OrderIsValid(params, stats) ==
    /\ ~(OrderValue(params) > MaxOrderValue)
    /\ ~(stats.totalLoss >= DailyLossLimit)

MainnetInit ==
    /\ mnSimulationMode \in BOOLEAN
    /\ mnToday = 0
    /\ dsLastReset = 0
    /\ dsOrdersPlaced = 0
    /\ dsTotalLoss = 0
    /\ dsTotalProfit = 0
    /\ mnLastOrder = NoOrder

\* midnight passes
NewDay ==
    /\ mnToday < MaxDays
    /\ mnToday' = mnToday + 1
    /\ UNCHANGED <<mnSimulationMode, dsLastReset, dsOrdersPlaced, dsTotalLoss,
                   dsTotalProfit, mnLastOrder>>
    /\ UNCHANGED otherThanMainnet

\* createOrder(params); accepted tells whether the exchange accepts an order
\* that is sent to it
CreateOrder(params, accepted) ==
    LET stats == DailyStatsToday
        outcome == IF ~OrderIsValid(params, stats) THEN "blocked"
                   ELSE IF mnSimulationMode THEN "simulated"
                   ELSE IF accepted THEN "accepted" ELSE "rejected"
    IN /\ stats.ordersPlaced < MaxOrders
       /\ dsLastReset' = mnToday
       /\ dsTotalLoss' = stats.totalLoss
       /\ dsTotalProfit' = stats.totalProfit
       /\ dsOrdersPlaced' = IF outcome = "accepted" THEN stats.ordersPlaced + 1
                            ELSE stats.ordersPlaced
       /\ mnLastOrder' = [type |-> params.type, quantity |-> params.quantity,
                          price |-> params.price, lossBefore |-> stats.totalLoss,
                          outcome |-> outcome]
       /\ UNCHANGED <<mnSimulationMode, mnToday>>
       /\ UNCHANGED otherThanMainnet

\* updateDailyStats('trade', params, {pnl})
UpdateDailyStatsTrade(pnl) ==
    LET stats == DailyStatsToday
        loss == IF pnl > 0 THEN 0 ELSE -pnl
        profit == IF pnl > 0 THEN pnl ELSE 0
    IN /\ stats.totalLoss + loss <= MaxLossTotal
       /\ stats.totalProfit + profit <= MaxProfitTotal
       /\ dsLastReset' = mnToday
       /\ dsOrdersPlaced' = stats.ordersPlaced
       /\ dsTotalLoss' = stats.totalLoss + loss
       /\ dsTotalProfit' = stats.totalProfit + profit
       /\ UNCHANGED <<mnSimulationMode, mnToday, mnLastOrder>>
       /\ UNCHANGED otherThanMainnet

MainnetNext ==
    \/ NewDay
    \/ \E params \in OrderParams, accepted \in BOOLEAN : CreateOrder(params, accepted)
    \/ \E pnl \in PnLs : UpdateDailyStatsTrade(pnl)

(***************************************************************************)
(* The position lifecycle: TradingService.executeBuy and                   *)
(* setTakeProfitStopLoss as the listing handlers and the API's test buy    *)
(* call them, the checkPositions passes of the monitoring timers, and the  *)
(* API's manual close.  Every await is a point where the other calls may   *)
(* run.  A position object or row carries its status, whether tpOrderId    *)
(* and slOrderId are set, and how many times closePosition has written its *)
(* exit fields (exitPrice, exitTime, closeReason, pnl).  The pnl sign is   *)
(* carried by the status determinePositionStatus derives from it.          *)
(***************************************************************************)
TradeSymbols == {"NEWUSDT"}
Buys == 1..MaxBuys
\* initialize() and start() each call startPositionMonitoring
Timers == {"initialize", "start"}
SubStatuses == {"BREAK_EVEN", "IN_PROFIT", "IN_LOSS"}
NoPosition == [status |-> "NONE", tpOrderId |-> FALSE, slOrderId |-> FALSE, closes |-> 0]
NoTpSl == [oco |-> "none", tp |-> "none", sl |-> "none", result |-> "none"]
NoBuy == 0

IsOpen(position) == position.status \notin {"NONE", "CLOSED"}

\* the object as closePosition leaves it
Closed(position) ==
    [position EXCEPT !.status = "CLOSED",
                     !.closes = IF @ < MaxCloses THEN @ + 1 ELSE @]

\* Database.updatePosition(position): the rows with its symbol and orderId
UpdatePosition(rows, buy, position) ==
    IF rows[buy].status = "NONE" THEN rows ELSE [rows EXCEPT ![buy] = position]

\* the service as initialize() leaves it on an empty Position table; the
\* buy calls outside calls have returned without a position
TradingStart(calls) ==
    /\ activePositions = [s \in TradeSymbols |-> NoBuy]
    /\ positions = [b \in Buys |-> NoPosition]
    /\ dbPositions = [b \in Buys |-> NoPosition]
    /\ buyPc = [b \in Buys |-> IF b \in calls THEN "idle" ELSE "done"]
    /\ buySymbol = [b \in Buys |-> "NEWUSDT"]
    /\ tpSl = [b \in Buys |-> NoTpSl]
    /\ passPc = [t \in Timers |-> "idle"]
    /\ passPosition = [t \in Timers |-> NoBuy]
    /\ passRuns = 0
    /\ manualPc = "idle"
    /\ manualPosition = [buy |-> NoBuy, fields |-> NoPosition]
    /\ manualRuns = 0

TradingInit == TradingStart(Buys)

passVars == <<passPc, passPosition, passRuns>>
manualVars == <<manualPc, manualPosition, manualRuns>>

\* executeBuy up to its first await: the check for an existing position
ExecuteBuy(b, symbol) ==
    /\ buyPc[b] = "idle"
    /\ buySymbol' = [buySymbol EXCEPT ![b] = symbol]
    /\ buyPc' = [buyPc EXCEPT ![b] =
           IF activePositions[symbol] # NoBuy THEN "done" ELSE "placing"]
    /\ UNCHANGED <<activePositions, positions, dbPositions, tpSl, passVars, manualVars>>
    /\ UNCHANGED otherThanTrading

\* the awaits up to the answer of placeMarketBuyOrder, and the position
\* object built from an accepted order
PlaceMarketBuyOrder(b, accepted) ==
    /\ buyPc[b] = "placing"
    /\ IF accepted
       THEN /\ positions' = [positions EXCEPT ![b] = [NoPosition EXCEPT !.status = "OPEN"]]
            /\ buyPc' = [buyPc EXCEPT ![b] = "saving"]
       ELSE /\ buyPc' = [buyPc EXCEPT ![b] = "done"]
            /\ UNCHANGED positions
    /\ UNCHANGED <<activePositions, dbPositions, buySymbol, tpSl, passVars, manualVars>>
    /\ UNCHANGED otherThanTrading

\* Database.savePosition(position) writes the row
SavePosition(b) ==
    /\ buyPc[b] = "saving"
    /\ dbPositions' = [dbPositions EXCEPT ![b] = positions[b]]
    /\ buyPc' = [buyPc EXCEPT ![b] = "saved"]
    /\ UNCHANGED <<activePositions, positions, buySymbol, tpSl, passVars, manualVars>>
    /\ UNCHANGED otherThanTrading

\* executeBuy after savePosition: activePositions.set, buyExecuted, success
RegisterPosition(b) ==
    /\ buyPc[b] = "saved"
    /\ activePositions' = [activePositions EXCEPT ![buySymbol[b]] = b]
    /\ buyPc' = [buyPc EXCEPT ![b] = "bought"]
    /\ UNCHANGED <<positions, dbPositions, buySymbol, tpSl, passVars, manualVars>>
    /\ UNCHANGED otherThanTrading

\* setTakeProfitStopLoss up to the answer of placeOCOOrder
PlaceOCOOrder(b, accepted) ==
    /\ buyPc[b] = "bought"
    /\ IF accepted
       THEN /\ tpSl' = [tpSl EXCEPT ![b].oco = "accepted"]
            /\ positions' = [positions EXCEPT ![b].tpOrderId = TRUE, ![b].slOrderId = TRUE]
            /\ buyPc' = [buyPc EXCEPT ![b] = "updating"]
       ELSE /\ tpSl' = [tpSl EXCEPT ![b].oco = "rejected"]
            /\ buyPc' = [buyPc EXCEPT ![b] = "fallback"]
            /\ UNCHANGED positions
    /\ UNCHANGED <<activePositions, dbPositions, buySymbol, passVars, manualVars>>
    /\ UNCHANGED otherThanTrading

\* the answers of placeLimitSellOrder and placeStopLossOrder, sent together,
\* and the order ids written to the position
PlaceSeparateOrders(b, tpAccepted, slAccepted) ==
    /\ buyPc[b] = "fallback"
    /\ tpSl' = [tpSl EXCEPT ![b].tp = IF tpAccepted THEN "accepted" ELSE "rejected",
                            ![b].sl = IF slAccepted THEN "accepted" ELSE "rejected"]
    /\ positions' = [positions EXCEPT ![b].tpOrderId = tpAccepted,
                                      ![b].slOrderId = slAccepted]
    /\ buyPc' = [buyPc EXCEPT ![b] = "updating"]
    /\ UNCHANGED <<activePositions, dbPositions, buySymbol, passVars, manualVars>>
    /\ UNCHANGED otherThanTrading

\* setTakeProfitStopLoss from its updatePosition to its return.  When the
\* row is written, tpSlSet is emitted and success: true returned whatever the
\* orders answered; when updatePosition throws, success: false is returned
FinishTakeProfitStopLoss(b, written) ==
    /\ buyPc[b] = "updating"
    /\ IF written
       THEN /\ dbPositions' = UpdatePosition(dbPositions, b, positions[b])
            /\ tpSl' = [tpSl EXCEPT ![b].result = "success"]
       ELSE /\ tpSl' = [tpSl EXCEPT ![b].result = "failure"]
            /\ UNCHANGED dbPositions
    /\ buyPc' = [buyPc EXCEPT ![b] = "done"]
    /\ UNCHANGED <<activePositions, positions, buySymbol, passVars, manualVars>>
    /\ UNCHANGED otherThanTrading

\* what checkPositions does with a position after its status is settled
AfterStatus(position) ==
    IF position.tpOrderId \/ position.slOrderId THEN "orders" ELSE "idle"

\* a monitoring timer fires: checkPositions takes its snapshot of
\* activePositions and asks for the price
CheckPositions(t, symbol) ==
    /\ passPc[t] = "idle"
    /\ passRuns < MaxPassRuns
    /\ activePositions[symbol] # NoBuy
    /\ passPosition' = [passPosition EXCEPT ![t] = activePositions[symbol]]
    /\ passPc' = [passPc EXCEPT ![t] = "price"]
    /\ passRuns' = passRuns + 1
    /\ UNCHANGED <<activePositions, positions, dbPositions, buyPc, buySymbol, tpSl,
                   manualVars>>
    /\ UNCHANGED otherThanTrading

\* checkPositions after getCurrentPrice: pnl and status written to the object
UpdatePnL(t, newStatus) ==
    LET b == passPosition[t] IN
    /\ passPc[t] = "price"
    /\ IF newStatus # positions[b].status
       THEN /\ positions' = [positions EXCEPT ![b].status = newStatus]
            /\ passPc' = [passPc EXCEPT ![t] = "statusUpdate"]
       ELSE /\ passPc' = [passPc EXCEPT ![t] = AfterStatus(positions[b])]
            /\ UNCHANGED positions
    /\ UNCHANGED <<activePositions, dbPositions, buyPc, buySymbol, tpSl, passPosition,
                   passRuns, manualVars>>
    /\ UNCHANGED otherThanTrading

\* checkPositions: updatePosition writes the new status
UpdateStatus(t) ==
    LET b == passPosition[t] IN
    /\ passPc[t] = "statusUpdate"
    /\ dbPositions' = UpdatePosition(dbPositions, b, positions[b])
    /\ passPc' = [passPc EXCEPT ![t] = AfterStatus(positions[b])]
    /\ UNCHANGED <<activePositions, positions, buyPc, buySymbol, tpSl, passPosition,
                   passRuns, manualVars>>
    /\ UNCHANGED otherThanTrading

\* checkOrderStatus: filled tells whether the exchange reports the
\* protection order as FILLED
CheckOrderStatus(t, filled) ==
    /\ passPc[t] = "orders"
    /\ passPc' = [passPc EXCEPT ![t] = IF filled THEN "closing" ELSE "idle"]
    /\ UNCHANGED <<activePositions, positions, dbPositions, buyPc, buySymbol, tpSl,
                   passPosition, passRuns, manualVars>>
    /\ UNCHANGED otherThanTrading

\* closePosition after cancelOrder: the exit fields written to the object
ClosePosition(t) ==
    LET b == passPosition[t] IN
    /\ passPc[t] = "closing"
    /\ positions' = [positions EXCEPT ![b] = Closed(positions[b])]
    /\ passPc' = [passPc EXCEPT ![t] = "closeUpdate"]
    /\ UNCHANGED <<activePositions, dbPositions, buyPc, buySymbol, tpSl, passPosition,
                   passRuns, manualVars>>
    /\ UNCHANGED otherThanTrading

\* closePosition from its updatePosition on: the row written, the symbol
\* deleted from activePositions
FinishClosePosition(t) ==
    LET b == passPosition[t] IN
    /\ passPc[t] = "closeUpdate"
    /\ dbPositions' = UpdatePosition(dbPositions, b, positions[b])
    /\ activePositions' = [activePositions EXCEPT ![buySymbol[b]] = NoBuy]
    /\ passPc' = [passPc EXCEPT ![t] = "idle"]
    /\ UNCHANGED <<positions, buyPc, buySymbol, tpSl, passPosition, passRuns, manualVars>>
    /\ UNCHANGED otherThanTrading

\* POST /positions/:symbol/close: getPositionBySymbol returns a copy of a
\* row that is not CLOSED
ManualClose(b) ==
    /\ manualPc = "idle"
    /\ manualRuns < MaxManualRuns
    /\ IsOpen(dbPositions[b])
    /\ manualPosition' = [buy |-> b, fields |-> dbPositions[b]]
    /\ manualPc' = "closing"
    /\ manualRuns' = manualRuns + 1
    /\ UNCHANGED <<activePositions, positions, dbPositions, buyPc, buySymbol, tpSl,
                   passVars>>
    /\ UNCHANGED otherThanTrading

\* closePosition on the copy: exit fields, updatePosition on the row, the
\* symbol deleted from activePositions
FinishManualClose ==
    LET b == manualPosition.buy IN
    /\ manualPc = "closing"
    /\ manualPosition' = [manualPosition EXCEPT !.fields = Closed(@)]
    /\ dbPositions' = UpdatePosition(dbPositions, b, Closed(manualPosition.fields))
    /\ activePositions' = [activePositions EXCEPT ![buySymbol[b]] = NoBuy]
    /\ manualPc' = "idle"
    /\ UNCHANGED <<positions, buyPc, buySymbol, tpSl, passVars, manualRuns>>
    /\ UNCHANGED otherThanTrading

\* the buy calls: the listing handlers and POST /test/buy
BuyNext ==
    \/ \E b \in Buys, symbol \in TradeSymbols : ExecuteBuy(b, symbol)
    \/ \E b \in Buys, accepted \in BOOLEAN : PlaceMarketBuyOrder(b, accepted)
    \/ \E b \in Buys : SavePosition(b)
    \/ \E b \in Buys : RegisterPosition(b)
    \/ \E b \in Buys, accepted \in BOOLEAN : PlaceOCOOrder(b, accepted)
    \/ \E b \in Buys, tpAccepted \in BOOLEAN, slAccepted \in BOOLEAN :
           PlaceSeparateOrders(b, tpAccepted, slAccepted)
    \/ \E b \in Buys, written \in BOOLEAN : FinishTakeProfitStopLoss(b, written)

\* the monitoring timers and POST /positions/:symbol/close
CloseNext ==
    \/ \E t \in Timers, symbol \in TradeSymbols : CheckPositions(t, symbol)
    \/ \E t \in Timers, newStatus \in SubStatuses : UpdatePnL(t, newStatus)
    \/ \E t \in Timers : UpdateStatus(t)
    \/ \E t \in Timers, filled \in BOOLEAN : CheckOrderStatus(t, filled)
    \/ \E t \in Timers : ClosePosition(t)
    \/ \E t \in Timers : FinishClosePosition(t)
    \/ \E b \in Buys : ManualClose(b)
    \/ FinishManualClose

TradingNext == BuyNext \/ CloseNext

(***************************************************************************)
(* The entry order and the profit and loss of a position:                  *)
(* OrderManager.placeMarketBuyOrder, the position executeBuy builds from   *)
(* its result, and PositionCalculator.calculatePnL as closePosition uses   *)
(* it.  A JavaScript value is a number, NaN or a pending Promise.          *)
(***************************************************************************)
Number(r) == [kind |-> "number", value |-> RNorm(r)]
NaN == [kind |-> "NaN", value |-> <<0, 1>>]
\* a Promise that was never awaited, and what it would resolve to
PromiseOf(r) == [kind |-> "promise", value |-> RNorm(r)]

RSub(a, b) == RNorm(<<a[1] * b[2] - b[1] * a[2], a[2] * b[2]>>)
RDiv(a, b) == RNorm(<<a[1] * b[2], a[2] * b[1]>>)

\* the arithmetic operators of JavaScript: an operand that is not a number
\* (a Promise converts to NaN) gives NaN
JsSub(a, b) ==
    IF a.kind = "number" /\ b.kind = "number" THEN Number(RSub(a.value, b.value)) ELSE NaN
JsMul(a, b) ==
    IF a.kind = "number" /\ b.kind = "number" THEN Number(RMul(a.value, b.value)) ELSE NaN
\* x / 0 is Infinity or NaN, which the model does not tell apart
JsDiv(a, b) ==
    IF a.kind = "number" /\ b.kind = "number" /\ b.value[1] # 0
    THEN Number(RDiv(a.value, b.value)) ELSE NaN

CalculatePnL(entryPrice, currentPrice, quantity) ==
    [amount |-> JsMul(JsSub(currentPrice, entryPrice), quantity),
     percentage |-> JsMul(JsSub(JsDiv(currentPrice, entryPrice), Number(RInt(1))),
                          Number(RInt(100)))]

\* calculateQuantity results, market prices at the buy and at the close
EntryQuantities == {1, 2, 3}
EntryPrices == {50, 100, 200}
ExitPrices == {40, 100, 105}
\* how the exchange answers a MARKET order
EntryAnswers == {"FILLED", "EXPIRED", "error"}

NoEntryOrder ==
    [success |-> FALSE, status |-> "none", executedQty |-> Number(RInt(0)), avgPrice |-> NaN]
NoEntryPosition ==
    [status |-> "NONE", quantity |-> NaN, entryPrice |-> NaN, exitPrice |-> NaN,
     pnl |-> NaN, pnlPercent |-> NaN]

EntryInit ==
    /\ enSimulation \in BOOLEAN
    /\ enOrder = NoEntryOrder
    /\ enFill = 0
    /\ enPosition = NoEntryPosition
    /\ enRegistered = FALSE
    /\ enPc = "idle"

\* placeMarketBuyOrder(symbol, quantity): the mocked result in simulation
\* mode; otherwise the exchange's answer, with avgPrice the Promise that
\* getOrderAveragePrice returns and nobody awaits
EntryPlaceMarketBuyOrder(quantity, price, answer) ==
    /\ enPc = "idle"
    /\ IF enSimulation
       THEN /\ answer = "FILLED"
            /\ enOrder' = [success |-> TRUE, status |-> "FILLED",
                           executedQty |-> Number(RInt(quantity)),
                           avgPrice |-> Number(RInt(price))]
            /\ enFill' = price
       ELSE CASE answer = "FILLED" ->
                 /\ enOrder' = [success |-> TRUE, status |-> "FILLED",
                                executedQty |-> Number(RInt(quantity)),
                                avgPrice |-> PromiseOf(RInt(price))]
                 /\ enFill' = price
              [] answer = "EXPIRED" ->
                 /\ enOrder' = [success |-> TRUE, status |-> "EXPIRED",
                                executedQty |-> Number(RInt(0)),
                                avgPrice |-> PromiseOf(RInt(0))]
                 /\ enFill' = 0
              [] OTHER ->
                 /\ enOrder' = [NoEntryOrder EXCEPT !.status = "error"]
                 /\ enFill' = 0
    /\ enPc' = "ordered"
    /\ UNCHANGED <<enSimulation, enPosition, enRegistered>>
    /\ UNCHANGED otherThanEntry

\* executeBuy after placeMarketBuyOrder: the position object, savePosition
\* (saved tells whether the table took the row) and activePositions.set
EntryExecuteBuy(saved) ==
    /\ enPc = "ordered"
    /\ IF enOrder.success
       THEN /\ enPosition' = [NoEntryPosition EXCEPT !.status = "OPEN",
                                                     !.quantity = enOrder.executedQty,
                                                     !.entryPrice = enOrder.avgPrice]
            /\ enRegistered' = saved
            /\ enPc' = IF saved THEN "open" ELSE "failed"
       ELSE /\ enPc' = "failed"
            /\ UNCHANGED <<enPosition, enRegistered>>
    /\ UNCHANGED <<enSimulation, enOrder, enFill>>
    /\ UNCHANGED otherThanEntry

\* checkPositions: the profit and loss at the current price
EntryCheckPositions(currentPrice) ==
    /\ enPc = "open"
    /\ LET pnl == CalculatePnL(enPosition.entryPrice, Number(RInt(currentPrice)),
                               enPosition.quantity)
       IN enPosition' = [enPosition EXCEPT !.pnl = pnl.amount,
                                           !.pnlPercent = pnl.percentage]
    /\ UNCHANGED <<enSimulation, enOrder, enFill, enRegistered, enPc>>
    /\ UNCHANGED otherThanEntry

\* closePosition(position, filledOrder): exit price and profit and loss
EntryClosePosition(exitPrice) ==
    /\ enPc = "open"
    /\ LET pnl == CalculatePnL(enPosition.entryPrice, Number(RInt(exitPrice)),
                               enPosition.quantity)
       IN enPosition' = [enPosition EXCEPT !.status = "CLOSED",
                                           !.exitPrice = Number(RInt(exitPrice)),
                                           !.pnl = pnl.amount,
                                           !.pnlPercent = pnl.percentage]
    /\ enRegistered' = FALSE
    /\ enPc' = "closed"
    /\ UNCHANGED <<enSimulation, enOrder, enFill>>
    /\ UNCHANGED otherThanEntry

EntryNext ==
    \/ \E quantity \in EntryQuantities, price \in EntryPrices, answer \in EntryAnswers :
           EntryPlaceMarketBuyOrder(quantity, price, answer)
    \/ \E saved \in BOOLEAN : EntryExecuteBuy(saved)
    \/ \E currentPrice \in ExitPrices : EntryCheckPositions(currentPrice)
    \/ \E exitPrice \in ExitPrices : EntryClosePosition(exitPrice)

(***************************************************************************)
(* The ceiling on open positions: TradingService.maxPositions, which       *)
(* updateEnvironmentSettings assigns, and the check executeBuy makes       *)
(* before it places an entry order.  One executeBuy call per symbol.       *)
(***************************************************************************)
CeilingSymbols == 1..MaxSymbols
Environments == {"testnet", "mainnet"}
Undefined == [defined |-> FALSE, value |-> 0]
\* environmentSettings.testnet.maxSimultaneousPositions
TestnetMaxPositions == 10

\* environmentSettings[env].maxSimultaneousPositions
MaxSimultaneousPositions(env) ==
    IF env = "testnet" THEN TestnetMaxPositions ELSE ConfiguredMaxPositions

\* activePositions.size >= this.maxPositions; a comparison with undefined
\* is false
LimitReached(size, maxPositions) ==
    maxPositions.defined /\ size >= maxPositions.value

\* the service as the constructor and initialize() leave it
CeilingInit ==
    /\ cpEnvironment \in Environments
    /\ cpMaxPositions = Undefined
    /\ cpActive = {}
    /\ cpPc = [s \in CeilingSymbols |-> "idle"]
    /\ cpOrders = [s \in CeilingSymbols |-> 0]

\* switchEnvironment(environmentName) with updateEnvironmentSettings
CeilingSwitchEnvironment(env) ==
    /\ cpEnvironment' = env
    /\ cpMaxPositions' = [defined |-> TRUE, value |-> MaxSimultaneousPositions(env)]
    /\ UNCHANGED <<cpActive, cpPc, cpOrders>>
    /\ UNCHANGED otherThanCeiling

\* executeBuy up to its first await: the two checks on activePositions
CeilingExecuteBuy(s) ==
    /\ cpPc[s] = "idle"
    /\ cpPc' = [cpPc EXCEPT ![s] =
           IF s \in cpActive \/ LimitReached(Cardinality(cpActive), cpMaxPositions)
           THEN "refused" ELSE "placing"]
    /\ UNCHANGED <<cpEnvironment, cpMaxPositions, cpActive, cpOrders>>
    /\ UNCHANGED otherThanCeiling

\* executeBuy from placeMarketBuyOrder to activePositions.set
CeilingPlaceOrder(s, accepted) ==
    /\ cpPc[s] = "placing"
    /\ IF accepted
       THEN /\ cpOrders' = [cpOrders EXCEPT ![s] = @ + 1]
            /\ cpActive' = cpActive \cup {s}
            /\ cpPc' = [cpPc EXCEPT ![s] = "open"]
       ELSE /\ cpPc' = [cpPc EXCEPT ![s] = "refused"]
            /\ UNCHANGED <<cpActive, cpOrders>>
    /\ UNCHANGED <<cpEnvironment, cpMaxPositions>>
    /\ UNCHANGED otherThanCeiling

\* closePosition: activePositions.delete
CeilingClosePosition(s) ==
    /\ cpPc[s] = "open"
    /\ cpActive' = cpActive \ {s}
    /\ cpPc' = [cpPc EXCEPT ![s] = "closed"]
    /\ UNCHANGED <<cpEnvironment, cpMaxPositions, cpOrders>>
    /\ UNCHANGED otherThanCeiling

CeilingNext ==
    \/ \E env \in Environments : CeilingSwitchEnvironment(env)
    \/ \E s \in CeilingSymbols : CeilingExecuteBuy(s)
    \/ \E s \in CeilingSymbols, accepted \in BOOLEAN : CeilingPlaceOrder(s, accepted)
    \/ \E s \in CeilingSymbols : CeilingClosePosition(s)

(***************************************************************************)
(* Reconciliation of one open position with the exchange: checkPositions,  *)
(* checkOrderStatus and closePosition, pass after pass, against the        *)
(* statuses of the position's protection orders on the exchange.           *)
(***************************************************************************)
ProtectionOrders == {"tp", "sl"}

\* how setTakeProfitStopLoss can leave a position that has an order to
\* reconcile: an OCO pair, two separate orders, or one of them alone
Protections ==
    {[tp |-> TRUE, sl |-> TRUE, oco |-> TRUE], [tp |-> TRUE, sl |-> TRUE, oco |-> FALSE],
     [tp |-> TRUE, sl |-> FALSE, oco |-> FALSE], [tp |-> FALSE, sl |-> TRUE, oco |-> FALSE]}

ReconcileStart(protection) ==
    /\ rcTpOrderId = protection.tp
    /\ rcSlOrderId = protection.sl
    /\ rcOco = protection.oco
    /\ rcTp = IF protection.tp THEN "NEW" ELSE "none"
    /\ rcSl = IF protection.sl THEN "NEW" ELSE "none"
    /\ rcStatus = "OPEN"
    /\ rcOpenOrders = {}
    /\ rcPc = "idle"

ReconcileInit == \E protection \in Protections : ReconcileStart(protection)

\* the exchange fills a protection order; the other leg of an OCO order
\* is taken off the book with it
ReconcileFill(order) ==
    /\ rcTp # "FILLED" /\ rcSl # "FILLED"
    /\ IF order = "tp"
       THEN /\ rcTp = "NEW"
            /\ rcTp' = "FILLED"
            /\ rcSl' = IF rcOco THEN "EXPIRED" ELSE rcSl
       ELSE /\ rcSl = "NEW"
            /\ rcSl' = "FILLED"
            /\ rcTp' = IF rcOco THEN "EXPIRED" ELSE rcTp
    /\ UNCHANGED <<rcTpOrderId, rcSlOrderId, rcOco, rcStatus, rcOpenOrders, rcPc>>
    /\ UNCHANGED otherThanReconcile

\* the monitoring timer fires with the position in activePositions
ReconcileCheckPositions ==
    /\ rcPc = "idle"
    /\ rcStatus # "CLOSED"
    /\ rcPc' = "price"
    /\ UNCHANGED <<rcTpOrderId, rcSlOrderId, rcOco, rcTp, rcSl, rcStatus, rcOpenOrders>>
    /\ UNCHANGED otherThanReconcile

\* checkPositions after getCurrentPrice: the status from the profit and loss
ReconcileUpdatePnL(newStatus) ==
    /\ rcPc = "price"
    /\ rcStatus' = newStatus
    /\ rcPc' = IF rcTpOrderId \/ rcSlOrderId THEN "orders" ELSE "idle"
    /\ UNCHANGED <<rcTpOrderId, rcSlOrderId, rcOco, rcTp, rcSl, rcOpenOrders>>
    /\ UNCHANGED otherThanReconcile

\* checkOrderStatus after getOpenOrders: is an order of the position
\* missing from the open orders
ReconcileGetOpenOrders ==
    LET orders == {o \in ProtectionOrders : (IF o = "tp" THEN rcTp ELSE rcSl) = "NEW"}
    IN /\ rcPc = "orders"
       /\ rcOpenOrders' = orders
       /\ rcPc' = IF \/ "tp" \notin orders /\ rcTpOrderId
                     \/ "sl" \notin orders /\ rcSlOrderId
                  THEN "getOrder" ELSE "idle"
       /\ UNCHANGED <<rcTpOrderId, rcSlOrderId, rcOco, rcTp, rcSl, rcStatus>>
       /\ UNCHANGED otherThanReconcile

\* the order that checkOrderStatus asks the exchange about:
\* position.tpOrderId || position.slOrderId
OrderAskedAbout == IF rcTpOrderId THEN "tp" ELSE "sl"

\* checkOrderStatus after getOrder: closePosition when that order is FILLED
ReconcileGetOrder ==
    LET status == IF OrderAskedAbout = "tp" THEN rcTp ELSE rcSl
    IN /\ rcPc = "getOrder"
       /\ rcPc' = IF status = "FILLED" THEN "closing" ELSE "idle"
       /\ UNCHANGED <<rcTpOrderId, rcSlOrderId, rcOco, rcTp, rcSl, rcStatus, rcOpenOrders>>
       /\ UNCHANGED otherThanReconcile

\* closePosition: the order that was not asked about is cancelled and the
\* position is CLOSED
ReconcileClosePosition ==
    /\ rcPc = "closing"
    /\ IF OrderAskedAbout = "tp"
       THEN /\ rcSl' = IF rcSl = "NEW" THEN "CANCELED" ELSE rcSl
            /\ UNCHANGED rcTp
       ELSE /\ rcTp' = IF rcTp = "NEW" THEN "CANCELED" ELSE rcTp
            /\ UNCHANGED rcSl
    /\ rcStatus' = "CLOSED"
    /\ rcPc' = "idle"
    /\ UNCHANGED <<rcTpOrderId, rcSlOrderId, rcOco, rcOpenOrders>>
    /\ UNCHANGED otherThanReconcile

\* POST /positions/:symbol/close: closePosition with a made-up filled order
\* whose orderId is Date.now().  It is not the take-profit order, so the
\* reason is STOP_LOSS and the order cancelled is tpOrderId; cancelling one
\* leg of an OCO order takes the other off the book too
ReconcileManualClose ==
    /\ rcStatus # "CLOSED"
    /\ rcTp' = IF rcTpOrderId /\ rcTp = "NEW" THEN "CANCELED" ELSE rcTp
    /\ rcSl' = IF rcTpOrderId /\ rcTp = "NEW" /\ rcOco /\ rcSl = "NEW"
              THEN "CANCELED" ELSE rcSl
    /\ rcStatus' = "CLOSED"
    /\ UNCHANGED <<rcTpOrderId, rcSlOrderId, rcOco, rcOpenOrders, rcPc>>
    /\ UNCHANGED otherThanReconcile

\* the steps of the reconciliation passes
ReconcilePass ==
    \/ ReconcileCheckPositions
    \/ \E newStatus \in SubStatuses : ReconcileUpdatePnL(newStatus)
    \/ ReconcileGetOpenOrders
    \/ ReconcileGetOrder
    \/ ReconcileClosePosition

ReconcileNext ==
    \/ \E order \in ProtectionOrders : ReconcileFill(order)
    \/ ReconcileCheckPositions
    \/ \E newStatus \in SubStatuses : ReconcileUpdatePnL(newStatus)
    \/ ReconcileGetOpenOrders
    \/ ReconcileGetOrder
    \/ ReconcileClosePosition
    \/ ReconcileManualClose

(***************************************************************************)
(* BinanceListingBot.handleNewListing: the cache of processed listings,    *)
(* the test for an active position, the unique row of the listings table   *)
(* and the buy.  Each newListing event runs one handler call, and the      *)
(* calls interleave at their awaits.                                       *)
(***************************************************************************)
ListingSymbols == {"NEWUSDT", "ABCUSDT"}
ListingEvents == 1..MaxEvents

ListingInit ==
    /\ lsNow = 0
    /\ lsProcessed = {}
    /\ lsListings = {}
    /\ lsOpen = {}
    /\ lsPc = [h \in ListingEvents |-> "idle"]
    /\ lsSymbol = [h \in ListingEvents |-> "NEWUSDT"]
    /\ lsBuys = [s \in ListingSymbols |-> 0]

\* a millisecond passes
ListingTick ==
    /\ lsNow < MaxMs
    /\ lsNow' = lsNow + 1
    /\ UNCHANGED <<lsProcessed, lsListings, lsOpen, lsPc, lsSymbol, lsBuys>>
    /\ UNCHANGED otherThanListing

\* handleNewListing up to its first await: the key of the event (the monitors
\* set no detectedAt, so the key holds the current time) and the cache, which
\* is emptied when it has grown past its limit (cleared)
HandleNewListing(h, symbol, cleared) ==
    LET listingKey == <<symbol, lsNow>>
    IN /\ lsPc[h] = "idle"
       /\ lsSymbol' = [lsSymbol EXCEPT ![h] = symbol]
       /\ IF listingKey \in lsProcessed
          THEN /\ lsPc' = [lsPc EXCEPT ![h] = "done"]
               /\ UNCHANGED lsProcessed
          ELSE /\ lsProcessed' = IF cleared THEN {} ELSE lsProcessed \cup {listingKey}
               /\ lsPc' = [lsPc EXCEPT ![h] = "position"]
       /\ UNCHANGED <<lsNow, lsListings, lsOpen, lsBuys>>
       /\ UNCHANGED otherThanListing

\* after getPositionBySymbol: a symbol with an active position is skipped
ListingGetPosition(h) ==
    /\ lsPc[h] = "position"
    /\ lsPc' = [lsPc EXCEPT ![h] = IF lsSymbol[h] \in lsOpen THEN "done" ELSE "save"]
    /\ UNCHANGED <<lsNow, lsProcessed, lsListings, lsOpen, lsSymbol, lsBuys>>
    /\ UNCHANGED otherThanListing

\* a variant that goes on whatever saveListing returned
ListingSave_Unchecked(h, failed) ==
    /\ lsPc[h] = "save"
    /\ IF failed
       THEN /\ lsPc' = [lsPc EXCEPT ![h] = "done"]
            /\ UNCHANGED lsListings
       ELSE /\ lsListings' = lsListings \cup {lsSymbol[h]}
            /\ lsPc' = [lsPc EXCEPT ![h] = "filters"]
    /\ UNCHANGED <<lsNow, lsProcessed, lsOpen, lsSymbol, lsBuys>>
    /\ UNCHANGED otherThanListing

\* after saveListing: Listing.create fails on the unique index on symbol when
\* the table has a row for the symbol, saveListing returns null and the handler
\* returns; any other error (failed) is thrown to the handler's catch
ListingSave(h, failed) ==
    /\ lsPc[h] = "save"
    /\ IF lsSymbol[h] \in lsListings \/ failed
       THEN /\ lsPc' = [lsPc EXCEPT ![h] = "done"]
            /\ UNCHANGED lsListings
       ELSE /\ lsListings' = lsListings \cup {lsSymbol[h]}
            /\ lsPc' = [lsPc EXCEPT ![h] = "filters"]
    /\ UNCHANGED <<lsNow, lsProcessed, lsOpen, lsSymbol, lsBuys>>
    /\ UNCHANGED otherThanListing

\* checkListingFilters, the new_listing notification, on mainnet
\* performMainnetSafetyChecks, and the test for simulation mode: passed tells
\* whether the handler gets as far as executeBuy
ListingFilters(h, passed) ==
    /\ lsPc[h] = "filters"
    /\ lsPc' = [lsPc EXCEPT ![h] = IF passed THEN "buy" ELSE "done"]
    /\ UNCHANGED <<lsNow, lsProcessed, lsListings, lsOpen, lsSymbol, lsBuys>>
    /\ UNCHANGED otherThanListing

\* handleTestnetListing / handleMainnetListing: executeBuy and what follows
ListingExecuteBuy(h, success) ==
    /\ lsPc[h] = "buy"
    /\ lsBuys' = [lsBuys EXCEPT ![lsSymbol[h]] = @ + 1]
    /\ lsOpen' = IF success THEN lsOpen \cup {lsSymbol[h]} ELSE lsOpen
    /\ lsPc' = [lsPc EXCEPT ![h] = "done"]
    /\ UNCHANGED <<lsNow, lsProcessed, lsListings, lsSymbol>>
    /\ UNCHANGED otherThanListing

\* closePosition: the symbol's Position row becomes CLOSED
ListingClosePosition(symbol) ==
    /\ symbol \in lsOpen
    /\ lsOpen' = lsOpen \ {symbol}
    /\ UNCHANGED <<lsNow, lsProcessed, lsListings, lsPc, lsSymbol, lsBuys>>
    /\ UNCHANGED otherThanListing

ListingNext ==
    \/ ListingTick
    \/ \E h \in ListingEvents, symbol \in ListingSymbols, cleared \in BOOLEAN :
           HandleNewListing(h, symbol, cleared)
    \/ \E h \in ListingEvents : ListingGetPosition(h)
    \/ \E h \in ListingEvents, failed \in BOOLEAN : ListingSave(h, failed)
    \/ \E h \in ListingEvents, passed \in BOOLEAN : ListingFilters(h, passed)
    \/ \E h \in ListingEvents, success \in BOOLEAN : ListingExecuteBuy(h, success)
    \/ \E symbol \in ListingSymbols : ListingClosePosition(symbol)

(***************************************************************************)
(* BinanceClient.publicRequest and privateRequest: one HTTP call made      *)
(* through the axios client, whose response interceptor handles the        *)
(* statuses 429 and 418, inside the function that pRetry runs.  The rate   *)
(* limit check that precedes the call is the limiter's part above.         *)
(***************************************************************************)
RequestKinds == {"public", "private"}
Statuses == {200, 400, 404, 418, 429, 500}
RetryMaxAttempts == 3

RequestInit ==
    /\ rqKind = "public"
    /\ rqPc = "idle"
    /\ rqDispatched = 0
    /\ rqAttempt = 0
    /\ rqLast = 0

\* publicRequest or privateRequest up to the pRetry call, which runs its
\* function a first time
RequestStart(kind) ==
    /\ rqPc \in {"idle", "returned", "thrown"}
    /\ rqKind' = kind
    /\ rqPc' = "dispatch"
    /\ rqDispatched' = 0
    /\ rqAttempt' = 0
    /\ rqLast' = 0
    /\ UNCHANGED otherThanRequest

\* this.client.get, post or delete (or this.client(error.config) of the
\* interceptor) sends the request
RequestDispatch ==
    /\ rqPc = "dispatch"
    /\ rqDispatched < MaxDispatches
    /\ rqDispatched' = rqDispatched + 1
    /\ rqPc' = "inflight"
    /\ UNCHANGED <<rqKind, rqAttempt, rqLast>>
    /\ UNCHANGED otherThanRequest

\* pRetry when its function has thrown: it runs the function again until
\* the retries of its options are used up, then rejects with the error
PRetryFailed ==
    IF rqAttempt < RetryMaxAttempts
    THEN /\ rqAttempt' = rqAttempt + 1
         /\ rqPc' = "dispatch"
    ELSE /\ rqPc' = "thrown"
         /\ UNCHANGED rqAttempt

\* the response arrives and goes through the response interceptor: a 2xx
\* response is returned; after a 429 the interceptor waits and sends the
\* request again; after a 418 it throws, and any other error it rejects
\* with, both inside the function that pRetry runs
RequestRespond(status) ==
    /\ rqPc = "inflight"
    /\ rqLast' = status
    /\ IF status = 200
       THEN /\ rqPc' = "returned"
            /\ UNCHANGED rqAttempt
       ELSE IF status = 429
            THEN /\ rqPc' = "dispatch"
                 /\ UNCHANGED rqAttempt
            ELSE PRetryFailed
    /\ UNCHANGED <<rqKind, rqDispatched>>
    /\ UNCHANGED otherThanRequest

RequestNext ==
    \/ \E kind \in RequestKinds : RequestStart(kind)
    \/ RequestDispatch
    \/ \E status \in Statuses : RequestRespond(status)

(***************************************************************************)
(* PollingMonitor with the await of checkForNewListings: the interval      *)
(* callback starts a check, which waits for the 24h ticker snapshot, and   *)
(* stop() may run while it waits.                                          *)
(***************************************************************************)
PollingInit ==
    /\ pmIsRunning = FALSE
    /\ pmInterval = FALSE
    /\ pmKnownSymbols = {}
    /\ pmPending = 0
    /\ pmStopped = FALSE
    /\ pmLate = 0
    /\ pmEvents = <<>>

\* PollingMonitor.start(): loadInitialSymbols, startPolling, isRunning
PollingStart(trading) ==
    /\ ~pmIsRunning
    /\ pmKnownSymbols' = PollLoadInitialSymbols(trading)
    /\ pmInterval' = TRUE
    /\ pmIsRunning' = TRUE
    /\ pmStopped' = FALSE
    /\ pmLate' = 0
    /\ UNCHANGED <<pmPending, pmEvents>>
    /\ UNCHANGED otherThanPolling

\* the interval callback of startPolling calls checkForNewListings, which
\* runs up to its await of get24hrStats
PollingIntervalFires ==
    /\ pmInterval
    /\ pmPending < MaxPending
    /\ pmPending' = pmPending + 1
    /\ UNCHANGED <<pmIsRunning, pmInterval, pmKnownSymbols, pmStopped, pmLate,
                   pmEvents>>
    /\ UNCHANGED otherThanPolling

\* the snapshot arrives and checkForNewListings goes on after its await: it
\* adds every unknown symbol of the snapshot and emits newListing for it
PollingSnapshot(tickers) ==
    LET r == PollResult(pmKnownSymbols, tickers)
    IN /\ pmPending > 0
       /\ pmPending' = pmPending - 1
       /\ pmKnownSymbols' = r.known
       /\ pmLate' = IF pmStopped THEN pmLate + Len(r.events) ELSE pmLate
       /\ pmEvents' = r.events
       /\ UNCHANGED <<pmIsRunning, pmInterval, pmStopped>>
       /\ UNCHANGED otherThanPolling

\* get24hrStats fails: checkForNewListings throws and the interval callback
\* emits error
PollingSnapshotFails ==
    /\ pmPending > 0
    /\ pmPending' = pmPending - 1
    /\ pmEvents' = <<>>
    /\ UNCHANGED <<pmIsRunning, pmInterval, pmKnownSymbols, pmStopped, pmLate>>
    /\ UNCHANGED otherThanPolling

\* PollingMonitor.stop()
PollingStop ==
    /\ pmIsRunning
    /\ pmInterval' = FALSE
    /\ pmIsRunning' = FALSE
    /\ pmKnownSymbols' = {}
    /\ pmStopped' = TRUE
    /\ UNCHANGED <<pmPending, pmLate, pmEvents>>
    /\ UNCHANGED otherThanPolling

PollingNext ==
    \/ \E trading \in SUBSET Symbols : PollingStart(trading)
    \/ PollingIntervalFires
    \/ \E tickers \in SeqsUpTo(Symbols, MaxTickers) : PollingSnapshot(tickers)
    \/ PollingSnapshotFails
    \/ PollingStop

(***************************************************************************)
(* The push path (handleMiniTickerArray) and the polling path              *)
(* (checkForNewListings), started from one exchangeInfo and fed the same   *)
(* full ticker snapshots.                                                  *)
(***************************************************************************)
ParityInit ==
    /\ paStarted = FALSE
    /\ paWsKnown = {}
    /\ paPollKnown = {}
    /\ paWsEvents = <<>>
    /\ paPollEvents = <<>>
    /\ paWsDelisted = {}
    /\ paPollDelisted = {}

\* loadInitialSymbols of both monitors, on the same exchangeInfo
ParityStart(trading) ==
    /\ ~paStarted
    /\ paStarted' = TRUE
    /\ paWsKnown' = WsLoadInitialSymbols(trading)
    /\ paPollKnown' = PollLoadInitialSymbols(trading)
    /\ UNCHANGED <<paWsEvents, paPollEvents, paWsDelisted, paPollDelisted>>
    /\ UNCHANGED otherThanParity

\* one full ticker snapshot, handled by handleMiniTickerArray on the push
\* path and by checkForNewListings on the polling path, which emits no
\* delisting event
ParitySnapshot(tickers) ==
    LET ws == MiniTickerResult(paWsKnown, tickers)
        poll == PollResult(paPollKnown, tickers)
    IN /\ paStarted
       /\ paWsKnown' = ws.known
       /\ paWsEvents' = ws.events
       /\ paWsDelisted' = ws.delisted
       /\ paPollKnown' = poll.known
       /\ paPollEvents' = poll.events
       /\ paPollDelisted' = {}
       /\ UNCHANGED paStarted
       /\ UNCHANGED otherThanParity

\* both monitors are stopped
ParityStop ==
    /\ paStarted
    /\ paStarted' = FALSE
    /\ paWsKnown' = {}
    /\ paPollKnown' = {}
    /\ UNCHANGED <<paWsEvents, paPollEvents, paWsDelisted, paPollDelisted>>
    /\ UNCHANGED otherThanParity

ParityNext ==
    \/ \E trading \in SUBSET Symbols : ParityStart(trading)
    \/ \E tickers \in SeqsUpTo(Symbols, MaxTickers) : ParitySnapshot(tickers)
    \/ ParityStop

(***************************************************************************)
(* EnvironmentManager: the two profiles, the validation of a profile and   *)
(* switchEnvironment.  A key is modelled by what the validation reads of   *)
(* it: whether it is set, whether it is blank, and its length; a URL by    *)
(* whether it parses and by its protocol.                                  *)
(***************************************************************************)
EnvironmentNames == {"testnet", "mainnet"}
RequestedNames == {"testnet", "mainnet", "staging"}
MinKeyLength == 64
KeyValues == {[set |-> FALSE, blank |-> FALSE, length |-> 0],
              [set |-> TRUE, blank |-> TRUE, length |-> 3],
              [set |-> TRUE, blank |-> FALSE, length |-> MinKeyLength - 1],
              [set |-> TRUE, blank |-> FALSE, length |-> MinKeyLength]}
EnvironmentConfigs ==
    [apiKey : KeyValues, apiSecret : KeyValues,
     baseURL : {"https:", "http:"}, wsBaseURL : {"wss:", "unparsable"}]
ValidConfig ==
    [apiKey |-> [set |-> TRUE, blank |-> FALSE, length |-> MinKeyLength],
     apiSecret |-> [set |-> TRUE, blank |-> FALSE, length |-> MinKeyLength],
     baseURL |-> "https:", wsBaseURL |-> "wss:"]

\* the errors one required key adds in validateEnvironment
KeyErrors(key, value) ==
    IF ~value.set \/ value.blank THEN {<<"missing", key>>}
    ELSE IF value.length < MinKeyLength THEN {<<"short", key>>}
    ELSE {}

IsValidUrl(url) == url = "https:"
IsValidWebSocketUrl(url) == url = "wss:"

\* validateEnvironment(environmentName): [isValid, errors]
ValidateEnvironment(configs, environmentName) ==
    IF environmentName \notin EnvironmentNames
    THEN [isValid |-> FALSE, errors |-> {<<"unknown", environmentName>>}]
    ELSE LET config == configs[environmentName]
             errors == KeyErrors("apiKey", config.apiKey)
                       \cup KeyErrors("apiSecret", config.apiSecret)
                       \cup (IF IsValidUrl(config.baseURL) THEN {}
                             ELSE {<<"baseURL", "invalid">>})
                       \cup (IF IsValidWebSocketUrl(config.wsBaseURL) THEN {}
                             ELSE {<<"wsBaseURL", "invalid">>})
         IN [isValid |-> errors = {}, errors |-> errors]

EnvironmentInit ==
    /\ emConfig \in [EnvironmentNames -> EnvironmentConfigs]
    /\ emCurrent \in EnvironmentNames
    /\ emName = "testnet"
    /\ emBefore = emCurrent
    /\ emOutcome = "none"

\* the mutant of SwitchEnvironment: the target stays current when its
\* validation fails
SwitchEnvironment_NoRevert(environmentName) ==
    /\ emName' = environmentName
    /\ emBefore' = emCurrent
    /\ IF environmentName \notin EnvironmentNames
       THEN /\ emOutcome' = "threw"
            /\ UNCHANGED emCurrent
       ELSE /\ emCurrent' = environmentName
            /\ emOutcome' =
                   IF ValidateEnvironment(emConfig, environmentName).isValid
                   THEN "returned" ELSE "threw"
    /\ UNCHANGED emConfig
    /\ UNCHANGED otherThanEnvironment

\* EnvironmentManager.switchEnvironment(environmentName): throws for an
\* unknown name; else makes the target current, validates it, and makes the
\* old environment current again and throws when the validation fails
SwitchEnvironment(environmentName) ==
    /\ emName' = environmentName
    /\ emBefore' = emCurrent
    /\ IF environmentName \notin EnvironmentNames
       THEN /\ emOutcome' = "threw"
            /\ UNCHANGED emCurrent
       ELSE IF ValidateEnvironment(emConfig, environmentName).isValid
            THEN /\ emCurrent' = environmentName
                 /\ emOutcome' = "returned"
            ELSE /\ emCurrent' = emCurrent
                 /\ emOutcome' = "threw"
    /\ UNCHANGED emConfig
    /\ UNCHANGED otherThanEnvironment

EnvironmentNext ==
    \E environmentName \in RequestedNames : SwitchEnvironment(environmentName)

(***************************************************************************)
(* TradingService.switchEnvironment: pause, the client of the factory for  *)
(* the target, new settings, the account refresh and resume, with pause    *)
(* and resume as the operations that stop and start the monitoring.        *)
(***************************************************************************)
SwitchInit ==
    /\ swClient = "testnet"
    /\ swOrderManager = "testnet"
    /\ swFactoryCurrent = "testnet"
    /\ swMaxPositions = Undefined
    /\ swAccountInfo = "testnet"
    /\ swIsActive = FALSE
    /\ swInterval = FALSE
    /\ swPc = "idle"
    /\ swWasActive = FALSE
    /\ swName = "testnet"
    /\ swBefore = [client |-> "testnet", orderManager |-> "testnet",
                   isActive |-> FALSE, interval |-> FALSE]
    /\ swOutcome = "none"

\* TradingService.pause()
TradingPause ==
    /\ swPc = "idle"
    /\ swIsActive
    /\ swIsActive' = FALSE
    /\ swInterval' = FALSE
    /\ swOutcome' = "none"
    /\ UNCHANGED <<swClient, swOrderManager, swFactoryCurrent, swMaxPositions,
                   swAccountInfo, swPc,
                   swWasActive, swName, swBefore>>
    /\ UNCHANGED otherThanSwitch

\* TradingService.resume()
TradingResume ==
    /\ swPc = "idle"
    /\ ~swIsActive
    /\ swIsActive' = TRUE
    /\ swInterval' = TRUE
    /\ swOutcome' = "none"
    /\ UNCHANGED <<swClient, swOrderManager, swFactoryCurrent, swMaxPositions,
                   swAccountInfo, swPc,
                   swWasActive, swName, swBefore>>
    /\ UNCHANGED otherThanSwitch

\* switchEnvironment(environmentName) up to the call of the factory: it
\* notes isActive and pauses the service
TradingSwitchBegin(environmentName) ==
    /\ swPc = "idle"
    /\ swName' = environmentName
    /\ swBefore' = [client |-> swClient, orderManager |-> swOrderManager,
                    isActive |-> swIsActive, interval |-> swInterval]
    /\ swWasActive' = swIsActive
    /\ swIsActive' = FALSE
    /\ swInterval' = FALSE
    /\ swPc' = "client"
    /\ swOutcome' = "none"
    /\ UNCHANGED <<swClient, swOrderManager, swFactoryCurrent, swMaxPositions,
                   swAccountInfo>>
    /\ UNCHANGED otherThanSwitch

\* BinanceClientFactory.switchEnvironment and what follows it up to the
\* account refresh: the factory returns its client for the current
\* environment, throws when the target does not validate, or makes a client
\* for the target; the service takes the client, makes an order manager and
\* applies the settings of the client's environment
TradingSwitchClient(isValid) ==
    /\ swPc = "client"
    /\ IF swFactoryCurrent # swName /\ ~isValid
       THEN /\ swPc' = "idle"
            /\ swOutcome' = "threw"
            /\ UNCHANGED <<swClient, swOrderManager, swFactoryCurrent,
                           swMaxPositions>>
       ELSE /\ swFactoryCurrent' = swName
            /\ swClient' = swName
            /\ swOrderManager' = swName
            /\ swMaxPositions' = [defined |-> TRUE,
                                   value |-> MaxSimultaneousPositions(swName)]
            /\ swPc' = "account"
            /\ UNCHANGED swOutcome
    /\ UNCHANGED <<swAccountInfo, swIsActive, swInterval, swWasActive, swName,
                   swBefore>>
    /\ UNCHANGED otherThanSwitch

\* updateAccountInfo on the new client and the rest of switchEnvironment:
\* resume when the service was active, or the error of the refresh
TradingSwitchAccount(refreshed) ==
    /\ swPc = "account"
    /\ swPc' = "idle"
    /\ IF refreshed
       THEN /\ swOutcome' = "returned"
            /\ swAccountInfo' = swClient
            /\ swIsActive' = (swWasActive \/ swIsActive)
            /\ swInterval' = (swWasActive \/ swInterval)
       ELSE /\ swOutcome' = "threw"
            /\ UNCHANGED <<swAccountInfo, swIsActive, swInterval>>
    /\ UNCHANGED <<swClient, swOrderManager, swFactoryCurrent, swMaxPositions,
                   swWasActive,
                   swName, swBefore>>
    /\ UNCHANGED otherThanSwitch

SwitchNext ==
    \/ TradingPause
    \/ TradingResume
    \/ \E environmentName \in EnvironmentNames : TradingSwitchBegin(environmentName)
    \/ \E isValid \in BOOLEAN : TradingSwitchClient(isValid)
    \/ \E refreshed \in BOOLEAN : TradingSwitchAccount(refreshed)

(***************************************************************************)
(* OrderManager on the real-money profile: each of its four methods builds *)
(* the parameters of an order and hands them to the client, whose          *)
(* createOrder is that of MainnetClient, with the audit records and the    *)
(* safety gate, or that of BinanceClient, the class the factory makes for  *)
(* every environment.                                                      *)
(***************************************************************************)
ClientClasses == {"BinanceClient", "MainnetClient"}
OrderMethods == {"placeMarketBuyOrder", "placeLimitSellOrder",
                 "placeStopLossOrder", "placeOCOOrder"}
MarketPrices == {1, 10}
TotalLosses == {0, DailyLossLimit}
NoOrderPlaced == [method |-> "none", notional |-> 0, audit |-> <<>>,
                  dispatched |-> FALSE, success |-> FALSE]

AuditInit ==
    /\ odClient \in ClientClasses
    /\ odSimulation \in BOOLEAN
    /\ odLast = NoOrderPlaced
    /\ odOrders = 0

\* MainnetClient.createOrder(params): the audit records it writes and
\* whether the order is sent; BinanceClient.createOrder sends the order and
\* writes none
ClientCreateOrder(class, params, totalLoss, accepted) ==
    IF class = "MainnetClient"
    THEN IF ~OrderIsValid(params, [totalLoss |-> totalLoss])
         THEN [audit |-> <<"ORDER_ATTEMPT", "ORDER_BLOCKED">>,
               dispatched |-> FALSE, success |-> FALSE]
         ELSE IF accepted
              THEN [audit |-> <<"ORDER_ATTEMPT", "ORDER_SUCCESS">>,
                    dispatched |-> TRUE, success |-> TRUE]
              ELSE [audit |-> <<"ORDER_ATTEMPT", "ORDER_ERROR">>,
                    dispatched |-> TRUE, success |-> FALSE]
    ELSE [audit |-> <<>>, dispatched |-> TRUE, success |-> accepted]

\* a method of the order manager returns its mock result in simulation mode
\* and calls createOrder(params) of its client otherwise: the record of
\* the order
PlacedThroughCreateOrder(method, params, notional, totalLoss, accepted) ==
    LET r == IF odSimulation
             THEN [audit |-> <<>>, dispatched |-> FALSE, success |-> TRUE]
             ELSE ClientCreateOrder(odClient, params, totalLoss, accepted)
    IN [method |-> method, notional |-> notional, audit |-> r.audit,
        dispatched |-> r.dispatched, success |-> r.success]

Dispatched(order) == IF order.dispatched THEN odOrders + 1 ELSE odOrders

\* placeMarketBuyOrder(symbol, quantity): a MARKET order, whose parameters
\* hold no price; currentPrice is the market price it is filled at
OrderMarketBuy(quantity, currentPrice, totalLoss, accepted) ==
    LET order == PlacedThroughCreateOrder("placeMarketBuyOrder",
                     [type |-> "MARKET", quantity |-> quantity, price |-> 0],
                     quantity * currentPrice, totalLoss, accepted)
    IN /\ odOrders < MaxPlaced
       /\ odLast' = order
       /\ odOrders' = Dispatched(order)
       /\ UNCHANGED <<odClient, odSimulation>>
       /\ UNCHANGED otherThanAudit

\* placeLimitSellOrder(symbol, quantity, price): a LIMIT order
OrderLimitSell(quantity, price, totalLoss, accepted) ==
    LET order == PlacedThroughCreateOrder("placeLimitSellOrder",
                     [type |-> "LIMIT", quantity |-> quantity, price |-> price],
                     quantity * price, totalLoss, accepted)
    IN /\ odOrders < MaxPlaced
       /\ odLast' = order
       /\ odOrders' = Dispatched(order)
       /\ UNCHANGED <<odClient, odSimulation>>
       /\ UNCHANGED otherThanAudit

\* placeStopLossOrder(symbol, quantity, stopPrice): a STOP_LOSS order; its
\* limit price is 0.99 of the stop price, and the gate is given the stop
\* price here, which is not smaller
OrderStopLoss(quantity, stopPrice, totalLoss, accepted) ==
    LET order == PlacedThroughCreateOrder("placeStopLossOrder",
                     [type |-> "STOP_LOSS", quantity |-> quantity,
                      price |-> stopPrice],
                     quantity * stopPrice, totalLoss, accepted)
    IN /\ odOrders < MaxPlaced
       /\ odLast' = order
       /\ odOrders' = Dispatched(order)
       /\ UNCHANGED <<odClient, odSimulation>>
       /\ UNCHANGED otherThanAudit

\* placeOCOOrder(symbol, quantity, takeProfitPrice, stopLossPrice): the mock
\* result in simulation mode, else the order list is posted with
\* privateRequest of the client, not with createOrder
OrderOCO(quantity, takeProfitPrice, accepted) ==
    /\ odOrders < MaxPlaced
    /\ odLast' = [method |-> "placeOCOOrder",
                  notional |-> quantity * takeProfitPrice, audit |-> <<>>,
                  dispatched |-> ~odSimulation,
                  success |-> (odSimulation \/ accepted)]
    /\ odOrders' = IF odSimulation THEN odOrders ELSE odOrders + 1
    /\ UNCHANGED <<odClient, odSimulation>>
    /\ UNCHANGED otherThanAudit

AuditNext ==
    \/ \E quantity \in Quantities, currentPrice \in MarketPrices,
          totalLoss \in TotalLosses, accepted \in BOOLEAN :
          OrderMarketBuy(quantity, currentPrice, totalLoss, accepted)
    \/ \E quantity \in Quantities, price \in MarketPrices,
          totalLoss \in TotalLosses, accepted \in BOOLEAN :
          OrderLimitSell(quantity, price, totalLoss, accepted)
    \/ \E quantity \in Quantities, stopPrice \in MarketPrices,
          totalLoss \in TotalLosses, accepted \in BOOLEAN :
          OrderStopLoss(quantity, stopPrice, totalLoss, accepted)
    \/ \E quantity \in Quantities, takeProfitPrice \in MarketPrices,
          accepted \in BOOLEAN :
          OrderOCO(quantity, takeProfitPrice, accepted)

(***************************************************************************)
(* executeBuy from its checks on activePositions to the market order: the  *)
(* size of the order comes from calculateOrderSizeForEnvironment, and      *)
(* RiskManager.isRiskAcceptable is the test of the risk module.            *)
(***************************************************************************)
RLt(a, b) == ~RLeq(b, a)

\* isRiskAcceptable(balance, activePositionsCount, orderSize)
IsRiskAcceptable(balance, activePositionsCount, orderSize) ==
    IF activePositionsCount >= ConfiguredMaxPositions
    THEN FALSE
    ELSE IF RLt(RMul(RInt(balance), UseOfBalance), orderSize)
    THEN FALSE
    ELSE IF RLt(RMul(RInt(balance), MaxAccountRiskPercent),
                RMul(orderSize, RInt(activePositionsCount + 1)))
    THEN FALSE
    ELSE TRUE

\* calculateOrderSizeForEnvironment(availableBalance)
CalculateOrderSizeForEnvironment(env, availableBalance, size) ==
    LET baseSize == CalculateOrderSize(availableBalance, size)
    IN IF env = "testnet"
       THEN RMin(RMul(baseSize, RInt(2)), RMul(RInt(availableBalance), <<1, 2>>))
       ELSE RMin(baseSize, RMul(RInt(MaxOrderSize), <<8, 10>>))

GateInit ==
    /\ gtEnvironment \in Environments
    /\ gtBalance \in {k * BalanceStep : k \in 0..MaxBalanceSteps}
    /\ gtCount \in 0..MaxCount
    /\ gtPc = "idle"
    /\ gtOrderSize = RInt(0)
    /\ gtPlaced = FALSE

\* executeBuy up to the order: the limit of positions of the environment,
\* the risk assessment of the real-money profile, the size of the order
GateExecuteBuy(highRisk) ==
    /\ gtPc = "idle"
    /\ LET orderSize == CalculateOrderSizeForEnvironment(gtEnvironment, gtBalance, gtCount)
       IN IF gtCount >= MaxSimultaneousPositions(gtEnvironment)
             \/ (gtEnvironment = "mainnet" /\ highRisk)
          THEN /\ gtPc' = "refused"
               /\ UNCHANGED gtOrderSize
          ELSE /\ gtOrderSize' = orderSize
               /\ gtPc' = IF RLt(orderSize, RInt(BaseOrderSize))
                          THEN "refused" ELSE "placing"
    /\ UNCHANGED <<gtEnvironment, gtBalance, gtCount, gtPlaced>>
    /\ UNCHANGED otherThanGate

\* orderManager.placeMarketBuyOrder(symbol, quantity) and its answer
GatePlaceOrder(accepted) ==
    /\ gtPc = "placing"
    /\ gtPlaced' = TRUE
    /\ gtPc' = IF accepted THEN "open" ELSE "failed"
    /\ UNCHANGED <<gtEnvironment, gtBalance, gtCount, gtOrderSize>>
    /\ UNCHANGED otherThanGate

GateNext ==
    \/ \E highRisk \in BOOLEAN : GateExecuteBuy(highRisk)
    \/ \E accepted \in BOOLEAN : GatePlaceOrder(accepted)

(***************************************************************************)
(* PositionCalculator.calculateQuantity and the entry order executeBuy     *)
(* sends with its result.  Quantities and filter values are rationals.     *)
(***************************************************************************)
FilterOrderSizes == {10, 20}
FilterPrices == {3, 4, 100}
MinQtys == {RInt(1), RInt(2)}
MaxQtys == {RInt(4), RInt(100)}
StepSizes == {RInt(0), <<1, 10>>, RInt(1)}
MinNotionals == {RInt(5), RInt(10)}
\* symbolInfo.filters: each of the two filters is there or not
LotSizeFilters ==
    [present : {TRUE}, minQty : MinQtys, maxQty : MaxQtys, stepSize : StepSizes]
        \cup {[present |-> FALSE, minQty |-> RInt(0), maxQty |-> RInt(0),
               stepSize |-> RInt(0)]}
NotionalFilters ==
    [present : {TRUE}, minNotional : MinNotionals]
        \cup {[present |-> FALSE, minNotional |-> RInt(0)]}

\* roundToStepSize(quantity, stepSize): Math.floor(quantity / stepSize) * stepSize
RoundToStepSize(quantity, stepSize) ==
    IF stepSize[1] = 0
    THEN quantity
    ELSE RMul(RInt((quantity[1] * stepSize[2]) \div (quantity[2] * stepSize[1])),
              stepSize)

\* calculateQuantity(orderSize, price, symbolInfo)
CalculateQuantity(orderSize, price, symbolInfo) ==
    LET lotSizeFilter == symbolInfo.lotSize
        notionalFilter == symbolInfo.notional
        base == RDiv(RInt(orderSize), RInt(price))
        raised == IF RLt(base, lotSizeFilter.minQty) THEN lotSizeFilter.minQty ELSE base
        lowered == IF RLt(lotSizeFilter.maxQty, raised) THEN lotSizeFilter.maxQty ELSE raised
        sized == IF lotSizeFilter.present
                 THEN RoundToStepSize(lowered, lotSizeFilter.stepSize)
                 ELSE base
        again == RDiv(notionalFilter.minNotional, RInt(price))
    IN IF notionalFilter.present
          /\ RLt(RMul(sized, RInt(price)), notionalFilter.minNotional)
       THEN IF lotSizeFilter.present
            THEN RoundToStepSize(again, lotSizeFilter.stepSize)
            ELSE again
       ELSE sized

\* the quantity satisfies the filters the symbol has
MeetsFilters(quantity, price, symbolInfo) ==
    /\ symbolInfo.lotSize.present =>
          /\ RLeq(symbolInfo.lotSize.minQty, quantity)
          /\ RLeq(quantity, symbolInfo.lotSize.maxQty)
          /\ \/ symbolInfo.lotSize.stepSize[1] = 0
             \/ REq(RoundToStepSize(quantity, symbolInfo.lotSize.stepSize), quantity)
    /\ symbolInfo.notional.present =>
          RLeq(symbolInfo.notional.minNotional, RMul(quantity, RInt(price)))

FilterInit ==
    /\ fqOrderSize \in FilterOrderSizes
    /\ fqPrice \in FilterPrices
    /\ fqSymbolInfo \in [lotSize : LotSizeFilters, notional : NotionalFilters]
    /\ fqPc = "idle"
    /\ fqQuantity = RInt(0)
    /\ fqSubmitted = FALSE

\* executeBuy: the quantity and the test made on it before the order
FilterCalculateQuantity ==
    /\ fqPc = "idle"
    /\ fqQuantity' = CalculateQuantity(fqOrderSize, fqPrice, fqSymbolInfo)
    /\ fqPc' = IF fqQuantity'[1] <= 0 THEN "thrown" ELSE "placing"
    /\ UNCHANGED <<fqOrderSize, fqPrice, fqSymbolInfo, fqSubmitted>>
    /\ UNCHANGED otherThanFilter

\* orderManager.placeMarketBuyOrder(symbol, quantity) and its answer
FilterPlaceOrder(accepted) ==
    /\ fqPc = "placing"
    /\ fqSubmitted' = TRUE
    /\ fqPc' = IF accepted THEN "open" ELSE "thrown"
    /\ UNCHANGED <<fqOrderSize, fqPrice, fqSymbolInfo, fqQuantity>>
    /\ UNCHANGED otherThanFilter

FilterNext ==
    \/ FilterCalculateQuantity
    \/ \E accepted \in BOOLEAN : FilterPlaceOrder(accepted)

(***************************************************************************)
(* executeBuy with what can fail in it: getSymbolInfo, the market order,   *)
(* savePosition.  The calls are made one after the other, each for a       *)
(* symbol; every error thrown inside the try block reaches the catch       *)
(* block, which calls saveError and returns an unsuccessful result.        *)
(***************************************************************************)
BuySymbols == 1..MaxSymbols
SymbolInfoAnswers == {"found", "missing", "error"}
NoOutcome == [result |-> "none", failedAt |-> "none"]

\* Database.saveError(error): a failure of Error.create is caught and null
\* is returned
SaveError(rows, created) ==
    [rows |-> IF created /\ rows < MaxErrorRows THEN rows + 1 ELSE rows,
     thrown |-> FALSE]

BuyInit ==
    /\ byActive = {}
    /\ byStored = {}
    /\ byPc = "idle"
    /\ bySymbol = 1
    /\ byBefore = [active |-> {}, stored |-> {}]
    /\ byOutcome = NoOutcome
    /\ bySaveErrors = 0
    /\ byErrorRows = 0

\* executeBuy(listingData) up to getSymbolInfo: the two early returns
BuyExecuteBuy(s) ==
    /\ byPc = "idle"
    /\ bySymbol' = s
    /\ byBefore' = [active |-> byActive, stored |-> byStored]
    /\ bySaveErrors' = 0
    /\ IF s \in byActive \/ Cardinality(byActive) >= ConfiguredMaxPositions
       THEN /\ byOutcome' = [result |-> "refused", failedAt |-> "none"]
            /\ byPc' = "idle"
       ELSE /\ byOutcome' = NoOutcome
            /\ byPc' = "symbolInfo"
    /\ UNCHANGED <<byActive, byStored, byErrorRows>>
    /\ UNCHANGED otherThanBuy

\* getSymbolInfo(symbol): the exchange fails, or the symbol is not there
BuyGetSymbolInfo(answer, created) ==
    /\ byPc = "symbolInfo"
    /\ IF answer = "found"
       THEN /\ byPc' = "placing"
            /\ UNCHANGED <<byOutcome, bySaveErrors, byErrorRows>>
       ELSE LET saved == SaveError(byErrorRows, created)
            IN /\ byErrorRows' = saved.rows
               /\ bySaveErrors' = bySaveErrors + 1
               /\ byOutcome' = [result |-> IF saved.thrown THEN "thrown" ELSE "failure",
                                failedAt |-> "symbolInfo"]
               /\ byPc' = "idle"
    /\ UNCHANGED <<byActive, byStored, bySymbol, byBefore>>
    /\ UNCHANGED otherThanBuy

\* placeMarketBuyOrder(symbol, quantity): a result without success is
\* thrown as an error
BuyPlaceMarketBuyOrder(success, created) ==
    /\ byPc = "placing"
    /\ IF success
       THEN /\ byPc' = "saving"
            /\ UNCHANGED <<byOutcome, bySaveErrors, byErrorRows>>
       ELSE LET saved == SaveError(byErrorRows, created)
            IN /\ byErrorRows' = saved.rows
               /\ bySaveErrors' = bySaveErrors + 1
               /\ byOutcome' = [result |-> IF saved.thrown THEN "thrown" ELSE "failure",
                                failedAt |-> "placing"]
               /\ byPc' = "idle"
    /\ UNCHANGED <<byActive, byStored, bySymbol, byBefore>>
    /\ UNCHANGED otherThanBuy

\* a plausible slip: the position entered in activePositions before it is
\* saved
BuySavePosition_SetFirst(stored, created) ==
    /\ byPc = "saving"
    /\ byActive' = byActive \cup {bySymbol}
    /\ IF stored
       THEN /\ byStored' = byStored \cup {bySymbol}
            /\ byOutcome' = [result |-> "success", failedAt |-> "none"]
            /\ UNCHANGED <<bySaveErrors, byErrorRows>>
       ELSE LET saved == SaveError(byErrorRows, created)
            IN /\ byErrorRows' = saved.rows
               /\ bySaveErrors' = bySaveErrors + 1
               /\ byOutcome' = [result |-> IF saved.thrown THEN "thrown" ELSE "failure",
                                failedAt |-> "saving"]
               /\ UNCHANGED byStored
    /\ byPc' = "idle"
    /\ UNCHANGED <<bySymbol, byBefore>>
    /\ UNCHANGED otherThanBuy

\* savePosition(position), then activePositions.set and the result
BuySavePosition(stored, created) ==
    /\ byPc = "saving"
    /\ IF stored
       THEN /\ byStored' = byStored \cup {bySymbol}
            /\ byActive' = byActive \cup {bySymbol}
            /\ byOutcome' = [result |-> "success", failedAt |-> "none"]
            /\ UNCHANGED <<bySaveErrors, byErrorRows>>
       ELSE LET saved == SaveError(byErrorRows, created)
            IN /\ byErrorRows' = saved.rows
               /\ bySaveErrors' = bySaveErrors + 1
               /\ byOutcome' = [result |-> IF saved.thrown THEN "thrown" ELSE "failure",
                                failedAt |-> "saving"]
               /\ UNCHANGED <<byActive, byStored>>
    /\ byPc' = "idle"
    /\ UNCHANGED <<bySymbol, byBefore>>
    /\ UNCHANGED otherThanBuy

BuyFailureNext ==
    \/ \E s \in BuySymbols : BuyExecuteBuy(s)
    \/ \E answer \in SymbolInfoAnswers, created \in BOOLEAN : BuyGetSymbolInfo(answer, created)
    \/ \E success \in BOOLEAN, created \in BOOLEAN : BuyPlaceMarketBuyOrder(success, created)
    \/ \E stored \in BOOLEAN, created \in BOOLEAN : BuySavePosition(stored, created)

(***************************************************************************)
(* checkPositions as the monitoring interval calls it: the loop over the   *)
(* snapshot of activePositions, with the try block around the check of     *)
(* each position.  checkOrderStatus and closePosition catch their own      *)
(* errors; getCurrentPrice and updatePosition throw into the catch of the  *)
(* loop.                                                                   *)
(***************************************************************************)
SweepSymbols == 1..MaxSymbols
CheckOutcomes == {"checked", "priceError", "updateError", "closed"}

\* Array.from(activePositions.values()), in the order of the symbols
SweepOrder(S) ==
    CHOOSE q \in [1..Cardinality(S) -> S] :
        \A i, j \in 1..Cardinality(S) : i < j => q[i] < q[j]

SweepInit ==
    /\ sweepActive \in SUBSET SweepSymbols
    /\ sweepSnapshot = <<>>
    /\ sweepIndex = 1
    /\ sweepChecked = {}
    /\ sweepFailed = {}
    /\ sweepDue = {}
    /\ sweepPc = "idle"
    /\ sweepPasses = 0

\* the interval fires: no pass when there is no position
SweepCheckPositions ==
    /\ sweepPc = "idle"
    /\ sweepPasses < MaxSweeps
    /\ sweepActive # {}
    /\ sweepSnapshot' = SweepOrder(sweepActive)
    /\ sweepIndex' = 1
    /\ sweepDue' = sweepFailed \cap sweepActive
    /\ sweepChecked' = {}
    /\ sweepFailed' = {}
    /\ sweepPc' = "checking"
    /\ UNCHANGED <<sweepActive, sweepPasses>>
    /\ UNCHANGED otherThanSweep

\* a plausible slip: one try block around the whole loop
SweepCheckPosition_Abort(outcome) ==
    /\ sweepPc = "checking"
    /\ LET position == sweepSnapshot[sweepIndex]
           threw == outcome \in {"priceError", "updateError"}
       IN /\ sweepChecked' = sweepChecked \cup {position}
          /\ sweepFailed' = IF threw THEN sweepFailed \cup {position} ELSE sweepFailed
          /\ sweepActive' = IF outcome = "closed"
                            THEN sweepActive \ {position} ELSE sweepActive
          /\ IF threw \/ sweepIndex = Len(sweepSnapshot)
             THEN /\ sweepPc' = "idle"
                  /\ sweepPasses' = sweepPasses + 1
                  /\ UNCHANGED sweepIndex
             ELSE /\ sweepIndex' = sweepIndex + 1
                  /\ UNCHANGED <<sweepPc, sweepPasses>>
    /\ UNCHANGED <<sweepSnapshot, sweepDue>>
    /\ UNCHANGED otherThanSweep

\* the body of the loop for one position, and the end of the pass after
\* the last one
SweepCheckPosition(outcome) ==
    /\ sweepPc = "checking"
    /\ LET position == sweepSnapshot[sweepIndex]
           threw == outcome \in {"priceError", "updateError"}
       IN /\ sweepChecked' = sweepChecked \cup {position}
          /\ sweepFailed' = IF threw THEN sweepFailed \cup {position} ELSE sweepFailed
          /\ sweepActive' = IF outcome = "closed"
                            THEN sweepActive \ {position} ELSE sweepActive
          /\ IF sweepIndex = Len(sweepSnapshot)
             THEN /\ sweepPc' = "idle"
                  /\ sweepPasses' = sweepPasses + 1
                  /\ UNCHANGED sweepIndex
             ELSE /\ sweepIndex' = sweepIndex + 1
                  /\ UNCHANGED <<sweepPc, sweepPasses>>
    /\ UNCHANGED <<sweepSnapshot, sweepDue>>
    /\ UNCHANGED otherThanSweep

\* executeBuy enters a position, also while a pass is awaiting
SweepExecuteBuy(s) ==
    /\ s \notin sweepActive
    /\ sweepActive' = sweepActive \cup {s}
    /\ UNCHANGED <<sweepSnapshot, sweepIndex, sweepChecked, sweepFailed, sweepDue,
                   sweepPc, sweepPasses>>
    /\ UNCHANGED otherThanSweep

SweepNext ==
    \/ SweepCheckPositions
    \/ \E outcome \in CheckOutcomes : SweepCheckPosition(outcome)
    \/ \E s \in SweepSymbols : SweepExecuteBuy(s)

(***************************************************************************)
(* The interval timer of the position monitoring through initialize,       *)
(* start, pause, resume and stop.  A timer is the number setInterval       *)
(* returned; positionMonitorInterval holds the last one.                   *)
(***************************************************************************)
NoTimer == 0

TimerInit ==
    /\ mtLive = {}
    /\ mtField = NoTimer
    /\ mtCreated = 0
    /\ mtIsActive = FALSE
    /\ mtPassSinceStop = FALSE
    /\ mtLastCall = "none"

\* initialize(): startPositionMonitoring, then isActive = true
TimerInitialize ==
    /\ mtCreated + 1 <= MaxIntervals
    /\ mtCreated' = mtCreated + 1
    /\ mtLive' = mtLive \cup {mtCreated + 1}
    /\ mtField' = mtCreated + 1
    /\ mtIsActive' = TRUE
    /\ UNCHANGED mtPassSinceStop
    /\ mtLastCall' = "initialize"
    /\ UNCHANGED otherThanTimer

\* start(): initialize() when the service is not active, then
\* startPositionMonitoring
TimerStart ==
    /\ LET made == IF mtIsActive THEN 1 ELSE 2
       IN /\ mtCreated + made <= MaxIntervals
          /\ mtCreated' = mtCreated + made
          /\ mtLive' = mtLive \cup (mtCreated + 1)..(mtCreated + made)
          /\ mtField' = mtCreated + made
    /\ mtIsActive' = TRUE
    /\ UNCHANGED mtPassSinceStop
    /\ mtLastCall' = "start"
    /\ UNCHANGED otherThanTimer

\* pause(): clearInterval of the timer the field holds
TimerPause ==
    /\ mtIsActive' = FALSE
    /\ mtLive' = mtLive \ {mtField}
    /\ mtField' = NoTimer
    /\ mtPassSinceStop' = FALSE
    /\ UNCHANGED mtCreated
    /\ mtLastCall' = "pause"
    /\ UNCHANGED otherThanTimer

\* resume(): isActive = true and startPositionMonitoring
TimerResume ==
    /\ mtCreated + 1 <= MaxIntervals
    /\ mtCreated' = mtCreated + 1
    /\ mtLive' = mtLive \cup {mtCreated + 1}
    /\ mtField' = mtCreated + 1
    /\ mtIsActive' = TRUE
    /\ UNCHANGED mtPassSinceStop
    /\ mtLastCall' = "resume"
    /\ UNCHANGED otherThanTimer

\* stop(): clearInterval of the timer the field holds; the field keeps it
TimerStop ==
    /\ mtIsActive' = FALSE
    /\ mtLive' = mtLive \ {mtField}
    /\ mtPassSinceStop' = FALSE
    /\ UNCHANGED <<mtField, mtCreated>>
    /\ mtLastCall' = "stop"
    /\ UNCHANGED otherThanTimer

\* a timer fires: the callback returns when the service is not active,
\* otherwise a checkPositions pass starts
TimerFires(t) ==
    /\ t \in mtLive
    /\ mtPassSinceStop' = (mtPassSinceStop \/ mtIsActive)
    /\ UNCHANGED <<mtLive, mtField, mtCreated, mtIsActive, mtLastCall>>
    /\ UNCHANGED otherThanTimer

TimerNext ==
    \/ TimerInitialize
    \/ TimerStart
    \/ TimerPause
    \/ TimerResume
    \/ TimerStop
    \/ \E t \in 1..MaxIntervals : TimerFires(t)

(***************************************************************************)
(* executeBuy from the size of the order to the market order: the size of  *)
(* calculateOrderSizeForEnvironment, then the quantity of                  *)
(* calculateQuantity for the price and the filters of the symbol.          *)
(***************************************************************************)
CostCounts == {0, 1}
\* free balances: none, too little for an order, enough for one
CostBalances == {0, 500, 1100, 2000}

\* the size the risk settings allow for one order on the balance
RiskBoundedSize(balance) ==
    RMin(RInt(MaxOrderSize),
         RMin(RMul(RInt(balance), MaxPositionRiskPercent),
              RMul(RInt(balance), UseOfBalance)))

CostInit ==
    /\ ctEnvironment \in Environments
    /\ ctBalance \in CostBalances
    /\ ctCount \in CostCounts
    /\ ctPrice \in FilterPrices
    /\ ctSymbolInfo \in [lotSize : LotSizeFilters, notional : NotionalFilters]
    /\ ctPc = "idle"
    /\ ctOrderSize = RInt(0)
    /\ ctQuantity = RInt(0)
    /\ ctSubmitted = FALSE

\* calculateQuantity(orderSize, price, symbolInfo) of a size that is a
\* rational
QuantityFor(orderSize, price, symbolInfo) ==
    LET lotSizeFilter == symbolInfo.lotSize
        notionalFilter == symbolInfo.notional
        base == RDiv(orderSize, RInt(price))
        raised == IF RLt(base, lotSizeFilter.minQty) THEN lotSizeFilter.minQty ELSE base
        lowered == IF RLt(lotSizeFilter.maxQty, raised) THEN lotSizeFilter.maxQty ELSE raised
        sized == IF lotSizeFilter.present
                 THEN RoundToStepSize(lowered, lotSizeFilter.stepSize)
                 ELSE base
        again == RDiv(notionalFilter.minNotional, RInt(price))
    IN IF notionalFilter.present
          /\ RLt(RMul(sized, RInt(price)), notionalFilter.minNotional)
       THEN IF lotSizeFilter.present
            THEN RoundToStepSize(again, lotSizeFilter.stepSize)
            ELSE again
       ELSE sized

\* executeBuy: the size of the order, the test against baseOrderSize, the
\* quantity and the test that it is positive
CostExecuteBuy ==
    /\ ctPc = "idle"
    /\ ctOrderSize' = CalculateOrderSizeForEnvironment(ctEnvironment, ctBalance, ctCount)
    /\ IF RLt(ctOrderSize', RInt(BaseOrderSize))
       THEN /\ ctPc' = "refused"
            /\ UNCHANGED ctQuantity
       ELSE /\ ctQuantity' = QuantityFor(ctOrderSize', ctPrice, ctSymbolInfo)
            /\ ctPc' = IF ctQuantity'[1] <= 0 THEN "thrown" ELSE "placing"
    /\ UNCHANGED <<ctEnvironment, ctBalance, ctCount, ctPrice, ctSymbolInfo, ctSubmitted>>
    /\ UNCHANGED otherThanCost

\* orderManager.placeMarketBuyOrder(symbol, quantity) and its answer
CostPlaceOrder(accepted) ==
    /\ ctPc = "placing"
    /\ ctSubmitted' = TRUE
    /\ ctPc' = IF accepted THEN "open" ELSE "thrown"
    /\ UNCHANGED <<ctEnvironment, ctBalance, ctCount, ctPrice, ctSymbolInfo,
                   ctOrderSize, ctQuantity>>
    /\ UNCHANGED otherThanCost

CostNext ==
    \/ CostExecuteBuy
    \/ \E accepted \in BOOLEAN : CostPlaceOrder(accepted)

(***************************************************************************)
(* The order requests of the listing handlers, executeBuy,                 *)
(* setTakeProfitStopLoss and closePosition under the simulation-mode flag. *)
(* Every order passes through an OrderManager method, and the mainnet      *)
(* client checks the flag once more in createOrder.                        *)
(***************************************************************************)
\* MainnetClient.createOrder / TestnetClient.createOrder: what becomes of
\* one createOrder call: "blocked" by the safety check, "simulated", "sent"
SimCreateOrder(environment, simulation, safe) ==
    IF environment = "mainnet"
    THEN IF ~safe THEN "blocked"
         ELSE IF simulation THEN "simulated"
         ELSE "sent"
    ELSE "sent"

\* OrderManager.placeMarketBuyOrder, placeLimitSellOrder, placeStopLossOrder:
\* the mocked result under the flag, createOrder of the client otherwise
SimPlaceOrder(environment, simulation, safe) ==
    IF simulation THEN "mocked"
    ELSE SimCreateOrder(environment, simulation, safe)

\* OrderManager.placeOCOOrder: the mocked result under the flag, a POST of
\* the client's privateRequest otherwise
SimPlaceOCOOrder(simulation) == IF simulation THEN "mocked" ELSE "sent"

\* OrderManager.cancelOrder: the mocked result under the flag, cancelOrder
\* of the client otherwise
SimCancelOrder(simulation) == IF simulation THEN "mocked" ELSE "sent"

SentCount(outcomes) == Cardinality({i \in DOMAIN outcomes : outcomes[i] = "sent"})
MockedCount(outcomes) == Cardinality({i \in DOMAIN outcomes : outcomes[i] = "mocked"})

SimInit ==
    /\ smSimulation \in BOOLEAN
    /\ smEnvironment \in {"testnet", "mainnet"}
    /\ smUseOCO \in BOOLEAN
    /\ smPc = "idle"
    /\ smRounds = 0
    /\ smCreates = 0
    /\ smCancels = 0
    /\ smMocked = 0
    /\ smReads = 0

\* handleTestnetListing / handleMainnetListing up to the call of executeBuy:
\* the mainnet safety checks may stop the listing, the flag stops it always
SimHandleListing(passed) ==
    /\ smPc = "idle"
    /\ smRounds < MaxRounds
    /\ smRounds' = smRounds + 1
    /\ smPc' = IF smEnvironment = "mainnet" /\ ~passed THEN "idle"
               ELSE IF smSimulation THEN "idle"
               ELSE "executeBuy"
    /\ UNCHANGED <<smSimulation, smEnvironment, smUseOCO, smCreates,
                   smCancels, smMocked, smReads>>
    /\ UNCHANGED otherThanSim

\* executeBuy called on the trading service itself
SimExecuteBuy ==
    /\ smPc = "idle"
    /\ smRounds < MaxRounds
    /\ smRounds' = smRounds + 1
    /\ smPc' = "executeBuy"
    /\ UNCHANGED <<smSimulation, smEnvironment, smUseOCO, smCreates,
                   smCancels, smMocked, smReads>>
    /\ UNCHANGED otherThanSim

\* executeBuy with an order manager whose placeMarketBuyOrder does not look
\* at the flag
SimPlaceMarketBuyOrder_NoFlag(safe) ==
    /\ smPc = "executeBuy"
    /\ LET outcome == SimCreateOrder(smEnvironment, FALSE, safe)
       IN /\ smCreates' = smCreates + SentCount(<<outcome>>)
          /\ smMocked' = smMocked + MockedCount(<<outcome>>)
          /\ smReads' = smReads
          /\ smPc' = IF outcome = "blocked" THEN "idle"
                     ELSE "setTakeProfitStopLoss"
    /\ UNCHANGED <<smSimulation, smEnvironment, smUseOCO, smRounds, smCancels>>
    /\ UNCHANGED otherThanSim

\* executeBuy: orderManager.placeMarketBuyOrder; under the flag the order
\* manager reads the current price and returns a mocked fill
SimPlaceMarketBuyOrder(safe) ==
    /\ smPc = "executeBuy"
    /\ LET outcome == SimPlaceOrder(smEnvironment, smSimulation, safe)
       IN /\ smCreates' = smCreates + SentCount(<<outcome>>)
          /\ smMocked' = smMocked + MockedCount(<<outcome>>)
          /\ smReads' = IF smSimulation THEN smReads + 1 ELSE smReads
          /\ smPc' = IF outcome = "blocked" THEN "idle"
                     ELSE "setTakeProfitStopLoss"
    /\ UNCHANGED <<smSimulation, smEnvironment, smUseOCO, smRounds, smCancels>>
    /\ UNCHANGED otherThanSim

\* setTakeProfitStopLoss: the OCO order when configured, the limit sell and
\* the stop loss when there is no OCO result or it failed
SimSetTakeProfitStopLoss(ocoAccepted, safe) ==
    /\ smPc = "setTakeProfitStopLoss"
    /\ LET oco == IF smUseOCO THEN <<SimPlaceOCOOrder(smSimulation)>> ELSE <<>>
           ocoSuccess == /\ smUseOCO
                         /\ \/ oco[1] = "mocked"
                            \/ oco[1] = "sent" /\ ocoAccepted
           separate == IF ocoSuccess THEN <<>>
                       ELSE <<SimPlaceOrder(smEnvironment, smSimulation, safe),
                              SimPlaceOrder(smEnvironment, smSimulation, safe)>>
           outcomes == oco \o separate
       IN /\ smCreates' = smCreates + SentCount(outcomes)
          /\ smMocked' = smMocked + MockedCount(outcomes)
    /\ smPc' = "open"
    /\ UNCHANGED <<smSimulation, smEnvironment, smUseOCO, smRounds, smCancels,
                   smReads>>
    /\ UNCHANGED otherThanSim

\* closePosition: orderManager.cancelOrder of the opposite order
SimClosePosition ==
    /\ smPc = "open"
    /\ LET outcome == SimCancelOrder(smSimulation)
       IN /\ smCancels' = smCancels + SentCount(<<outcome>>)
          /\ smMocked' = smMocked + MockedCount(<<outcome>>)
    /\ smPc' = "idle"
    /\ UNCHANGED <<smSimulation, smEnvironment, smUseOCO, smRounds, smCreates,
                   smReads>>
    /\ UNCHANGED otherThanSim

SimNext ==
    \/ \E passed \in BOOLEAN : SimHandleListing(passed)
    \/ SimExecuteBuy
    \/ \E safe \in BOOLEAN : SimPlaceMarketBuyOrder(safe)
    \/ \E ocoAccepted \in BOOLEAN, safe \in BOOLEAN :
            SimSetTakeProfitStopLoss(ocoAccepted, safe)
    \/ SimClosePosition

(***************************************************************************)
(* The profile name the client factory holds and the profile name the      *)
(* environment manager holds, through the initialization of the bot, its   *)
(* switchEnvironment and the factory's createClientForEnvironment.         *)
(***************************************************************************)
NoProfile == "none"
ProfileNames == {"testnet", "mainnet"}

\* EnvironmentManager constructor: the profile of config.binance.useTestnet;
\* the factory starts without a current environment
ProfileInit ==
    /\ pfValid \in [ProfileNames -> BOOLEAN]
    /\ pfManager \in ProfileNames
    /\ pfFactory = NoProfile
    /\ pfBot = NoProfile
    /\ pfPc = "new"
    /\ pfName = NoProfile
    /\ pfOutcome = "none"
    /\ pfCreated = NoProfile
    /\ pfSwitches = 0

\* BinanceClientFactory.switchEnvironment: the profile the factory holds
\* after the call, or "threw"; the environment manager is only asked to
\* validate
FactorySwitchEnvironment(current, environment, valid) ==
    IF current = environment THEN current
    ELSE IF ~valid[environment] THEN "threw"
    ELSE environment

\* BinanceListingBot.initialize: the factory is switched to the profile of
\* config.binance.useTestnet, which is the profile the manager starts with
ProfileInitialize ==
    /\ pfPc = "new"
    /\ LET after == FactorySwitchEnvironment(pfFactory, pfManager, pfValid)
       IN IF after = "threw"
          THEN /\ pfPc' = "failed"
               /\ UNCHANGED <<pfFactory, pfBot>>
          ELSE /\ pfPc' = "ready"
               /\ pfFactory' = after
               /\ pfBot' = pfManager
    /\ UNCHANGED <<pfValid, pfManager, pfName, pfOutcome, pfCreated, pfSwitches>>
    /\ UNCHANGED otherThanProfile

\* BinanceListingBot.switchEnvironment: TradingService.switchEnvironment
\* switches the factory and refreshes the account; when that returns, the
\* bot reads the manager's current environment
ProfileSwitchEnvironment(environmentName, refreshed) ==
    /\ pfPc = "ready"
    /\ pfSwitches < MaxSwitches
    /\ pfSwitches' = pfSwitches + 1
    /\ pfName' = environmentName
    /\ LET after == FactorySwitchEnvironment(pfFactory, environmentName, pfValid)
       IN IF after = "threw"
          THEN /\ pfOutcome' = "threw"
               /\ UNCHANGED <<pfFactory, pfBot>>
          ELSE /\ pfFactory' = after
               /\ IF refreshed
                  THEN /\ pfBot' = pfManager
                       /\ pfOutcome' = "returned"
                  ELSE /\ pfBot' = pfBot
                       /\ pfOutcome' = "threw"
    /\ UNCHANGED <<pfValid, pfManager, pfPc, pfCreated>>
    /\ UNCHANGED otherThanProfile

\* BinanceClientFactory.createClientForEnvironment: the manager is switched
\* to the profile and back (a profile that does not validate is reverted by
\* the manager itself); the client returned is the factory's current client
ProfileCreateClientForEnvironment(environmentName) ==
    /\ pfPc = "ready"
    /\ pfSwitches < MaxSwitches
    /\ pfSwitches' = pfSwitches + 1
    /\ pfCreated' = IF pfValid[environmentName] THEN pfFactory ELSE "threw"
    /\ UNCHANGED <<pfValid, pfManager, pfFactory, pfBot, pfPc, pfName, pfOutcome>>
    /\ UNCHANGED otherThanProfile

ProfileNext ==
    \/ ProfileInitialize
    \/ \E environmentName \in ProfileNames, refreshed \in BOOLEAN :
            ProfileSwitchEnvironment(environmentName, refreshed)
    \/ \E environmentName \in ProfileNames :
            ProfileCreateClientForEnvironment(environmentName)

(***************************************************************************)
(* WebSocketMonitor: the connection, its heartbeat interval and its        *)
(* reconnect timers, and the bot's handler of reconnectFailed, which       *)
(* starts the polling monitor.  The clock advances by one heartbeat        *)
(* interval at a time; pings and socket events happen in between.          *)
(***************************************************************************)
MonitoringModes == {"websocket", "polling", "none"}
ReconnectMaxAttempts == 5
ReconnectDelay == 5000
HeartbeatInterval == 30000
HeartbeatTimeout == 60000
NoHeartbeat == -1
ConnectPromises == {"settled", "own", "replaced"}

SocketInit ==
    /\ skMode \in MonitoringModes
    /\ skPollRunning = FALSE
    /\ skSocket = "none"
    /\ skIsConnected = FALSE
    /\ skReconnectAttempts = 0
    /\ skLastHeartbeat = NoHeartbeat
    /\ skHeartbeatOn = FALSE
    /\ skStarting = FALSE
    /\ skNow = 0
    /\ skQuietSince = 0
    /\ skTimers = 0
    /\ skTimeouts = 0
    /\ skFailed = FALSE
    /\ skStopped = FALSE
    /\ skDelay = 0
    /\ skOwnTimeout = FALSE
    /\ skSettled = 0

\* initializeMonitoring builds the WebSocket monitor or else the polling
\* monitor: this.monitors.polling exists in the polling mode only
PollingBuilt == skMode = "polling"

\* what handleReconnect and the handler of reconnectFailed read and write
ReconnectState ==
    [attempts |-> skReconnectAttempts, timers |-> skTimers,
     failed |-> skFailed, polling |-> skPollRunning, delay |-> skDelay]

\* BinanceListingBot.handleWebSocketFailure, the listener of reconnectFailed:
\* starts the polling monitor if there is one and it is not running
HandleWebSocketFailure(st) ==
    IF PollingBuilt /\ ~st.polling
    THEN [st EXCEPT !.polling = TRUE]
    ELSE st

\* a plausible slip: the attempts compared with > instead of >=
HandleReconnect_OneMore(st) ==
    IF st.attempts > ReconnectMaxAttempts
    THEN HandleWebSocketFailure([st EXCEPT !.failed = TRUE])
    ELSE [st EXCEPT !.attempts = @ + 1, !.timers = @ + 1,
                    !.delay = ReconnectDelay * (st.attempts + 1)]

\* WebSocketMonitor.handleReconnect: emits reconnectFailed when the attempts
\* are used up, else counts the attempt and sets a timer for connect()
HandleReconnect(st) ==
    IF st.attempts >= ReconnectMaxAttempts
    THEN HandleWebSocketFailure([st EXCEPT !.failed = TRUE])
    ELSE [st EXCEPT !.attempts = @ + 1, !.timers = @ + 1,
                    !.delay = ReconnectDelay * (st.attempts + 1)]

AfterReconnect(st) ==
    /\ skReconnectAttempts' = st.attempts
    /\ skTimers' = st.timers
    /\ skFailed' = st.failed
    /\ skPollRunning' = st.polling
    /\ skDelay' = st.delay

\* BinanceListingBot.start() with the WebSocket monitor: start() calls
\* connect(), which makes the socket and sets the connection timeout
SocketStart ==
    /\ skMode = "websocket"
    /\ skSocket = "none"
    /\ skTimeouts < MaxTimers
    /\ skSocket' = "connecting"
    /\ skStarting' = TRUE
    /\ skStopped' = FALSE
    /\ skTimeouts' = skTimeouts + 1
    /\ skOwnTimeout' = TRUE
    /\ UNCHANGED <<skMode, skPollRunning, skIsConnected, skReconnectAttempts,
                   skLastHeartbeat, skHeartbeatOn, skNow, skQuietSince,
                   skTimers, skFailed, skDelay, skSettled>>
    /\ UNCHANGED otherThanSocket

\* BinanceListingBot.start() with the polling monitor: PollingMonitor.start()
SocketPollingStart ==
    /\ skMode = "polling"
    /\ ~skPollRunning
    /\ skPollRunning' = TRUE
    /\ UNCHANGED <<skMode, skStopped, skSocket, skIsConnected, skReconnectAttempts,
                   skLastHeartbeat, skHeartbeatOn, skStarting, skNow,
                   skQuietSince, skTimers, skTimeouts, skFailed, skDelay,
                   skOwnTimeout, skSettled>>
    /\ UNCHANGED otherThanSocket

\* the open event; the connect() that start() awaits resolves and start()
\* goes on to startHeartbeat()
SocketOpen ==
    /\ skSocket = "connecting"
    /\ skSocket' = "open"
    /\ skIsConnected' = TRUE
    /\ skReconnectAttempts' = 0
    /\ skQuietSince' = skNow
    /\ skHeartbeatOn' = (skHeartbeatOn \/ skStarting)
    /\ skStarting' = FALSE
    /\ skOwnTimeout' = FALSE
    /\ skSettled' = IF skOwnTimeout THEN skSettled + 1 ELSE skSettled
    /\ UNCHANGED <<skMode, skStopped, skPollRunning, skLastHeartbeat, skNow, skTimers,
                   skTimeouts, skFailed, skDelay>>
    /\ UNCHANGED otherThanSocket

\* the ping event: a ping of the server, answered with a pong
SocketPing ==
    /\ skSocket = "open"
    /\ skLastHeartbeat' = skNow
    /\ skQuietSince' = skNow
    /\ UNCHANGED <<skMode, skStopped, skPollRunning, skSocket, skIsConnected,
                   skReconnectAttempts, skHeartbeatOn, skStarting, skNow,
                   skTimers, skTimeouts, skFailed, skDelay, skOwnTimeout, skSettled>>
    /\ UNCHANGED otherThanSocket

\* the close event, of a connection that failed, was dropped or was
\* terminated; when it is the connection start() awaits, start() throws at
\* the connection timeout and sets no heartbeat interval
SocketClose ==
    /\ skSocket \in {"connecting", "open", "closing"}
    /\ skTimers < MaxTimers
    /\ skSocket' = "closed"
    /\ skIsConnected' = FALSE
    /\ AfterReconnect(HandleReconnect(ReconnectState))
    /\ skStarting' = FALSE
    /\ skTimeouts' = IF skStarting THEN skTimeouts - 1 ELSE skTimeouts
    /\ skOwnTimeout' = IF skStarting THEN FALSE ELSE skOwnTimeout
    /\ UNCHANGED <<skMode, skStopped, skLastHeartbeat, skHeartbeatOn, skNow, skQuietSince,
                   skSettled>>
    /\ UNCHANGED otherThanSocket

\* the connection timeout of a connect() fires.  Its reject does nothing
\* when the promise was resolved by the open event ("settled"); the promise
\* of the connect() that made this.ws ("own") or of a connect() whose
\* socket was replaced since ("replaced") is rejected when the monitor is
\* not connected: the await of start() then throws to its caller, and the
\* callback of a reconnect timer catches the error and calls
\* handleReconnect()
SocketConnectTimeout(promise) ==
    /\ skTimeouts > 0
    /\ skTimers < MaxTimers
    /\ CASE promise = "settled" -> skSettled > 0
         [] promise = "own" -> skOwnTimeout
         [] promise = "replaced" ->
                skTimeouts - skSettled - (IF skOwnTimeout THEN 1 ELSE 0) > 0
    /\ skTimeouts' = skTimeouts - 1
    /\ skSettled' = IF promise = "settled" THEN skSettled - 1 ELSE skSettled
    /\ skOwnTimeout' = IF promise = "own" THEN FALSE ELSE skOwnTimeout
    /\ skStarting' = IF promise = "own" THEN FALSE ELSE skStarting
    /\ IF /\ promise # "settled"
          /\ ~skIsConnected
          /\ ~(promise = "own" /\ skStarting)
       THEN AfterReconnect(HandleReconnect(ReconnectState))
       ELSE UNCHANGED <<skReconnectAttempts, skTimers, skFailed, skPollRunning, skDelay>>
    /\ UNCHANGED <<skMode, skStopped, skSocket, skIsConnected, skLastHeartbeat,
                   skHeartbeatOn, skNow, skQuietSince>>
    /\ UNCHANGED otherThanSocket

\* a reconnect timer of handleReconnect fires: connect() makes a new socket,
\* which replaces this.ws, and sets its connection timeout; a rejection of
\* the connect() that start() still awaits goes to the caller of start()
SocketReconnectTimer ==
    /\ skTimers > 0
    /\ skTimeouts < MaxTimers
    /\ skTimers' = skTimers - 1
    /\ skTimeouts' = skTimeouts + 1
    /\ skSocket' = "connecting"
    /\ skOwnTimeout' = TRUE
    /\ skSettled' = IF skOwnTimeout /\ skStarting THEN skSettled + 1 ELSE skSettled
    /\ UNCHANGED <<skMode, skStopped, skPollRunning, skIsConnected, skReconnectAttempts,
                   skLastHeartbeat, skHeartbeatOn, skStarting, skNow,
                   skQuietSince, skFailed, skDelay>>
    /\ UNCHANGED otherThanSocket

\* a heartbeat interval passes and the callback of startHeartbeat runs: it
\* terminates the socket and calls handleReconnect() when lastHeartbeat is
\* set and older than the timeout, else it pings.  The close event of a
\* terminated socket arrives before the next interval has passed.
SocketHeartbeat ==
    /\ skHeartbeatOn
    /\ skNow < MaxBeats * HeartbeatInterval
    /\ skSocket # "closing"
    /\ skTimers < MaxTimers
    /\ skNow' = skNow + HeartbeatInterval
    /\ IF /\ skIsConnected
          /\ skLastHeartbeat # NoHeartbeat
          /\ skNow' - skLastHeartbeat > HeartbeatTimeout
       THEN /\ skSocket' = "closing"
            /\ AfterReconnect(HandleReconnect(ReconnectState))
       ELSE UNCHANGED <<skSocket, skReconnectAttempts, skTimers, skFailed,
                        skPollRunning, skDelay>>
    /\ UNCHANGED <<skMode, skStopped, skIsConnected, skLastHeartbeat, skHeartbeatOn,
                   skStarting, skQuietSince, skTimeouts, skOwnTimeout, skSettled>>
    /\ UNCHANGED otherThanSocket

\* WebSocketMonitor.stop(): clears the heartbeat interval, removes the
\* listeners of the socket, closes it if it is open and forgets it.  The
\* timers that handleReconnect and connect() set are kept in no field, and
\* stop() clears none of them.
SocketStop ==
    /\ skSocket # "none"
    /\ ~skStarting
    /\ skHeartbeatOn' = FALSE
    /\ skSocket' = "none"
    /\ skIsConnected' = FALSE
    /\ skStopped' = TRUE
    /\ UNCHANGED <<skMode, skPollRunning, skReconnectAttempts, skLastHeartbeat,
                   skStarting, skNow, skQuietSince, skTimers, skTimeouts,
                   skFailed, skDelay, skOwnTimeout, skSettled>>
    /\ UNCHANGED otherThanSocket

\* the timers of the monitor that are pending fire
SocketTimer ==
    \/ SocketReconnectTimer
    \/ \E promise \in ConnectPromises : SocketConnectTimeout(promise)

SocketNext ==
    \/ SocketStart
    \/ SocketPollingStart
    \/ SocketOpen
    \/ SocketPing
    \/ SocketClose
    \/ \E promise \in ConnectPromises : SocketConnectTimeout(promise)
    \/ SocketReconnectTimer
    \/ SocketHeartbeat
    \/ SocketStop

(***************************************************************************)
(* Specifications.                                                         *)
(***************************************************************************)
\* A component that a specification does not exercise stays as constructed.
MonitorIdle == MonitorInit /\ useTestnet = FALSE
RiskIdle == RiskInit /\ riskBalance = 0 /\ riskCount = 0
LimiterIdle == LimiterInit
MainnetIdle == MainnetInit /\ mnSimulationMode = FALSE
TradingIdle == TradingInit

CoreIdle == MonitorIdle /\ RiskIdle /\ LimiterIdle /\ MainnetIdle /\ TradingIdle
EntryIdle == enSimulation = FALSE /\ EntryInit
CeilingIdle == cpEnvironment = "testnet" /\ CeilingInit
ReconcileIdle == ReconcileStart([tp |-> TRUE, sl |-> TRUE, oco |-> TRUE])
ListingIdle == ListingInit
RequestIdle == RequestInit
PollingIdle == PollingInit
ParityIdle == ParityInit
EnvironmentIdle == emCurrent = "testnet" /\ emConfig = [n \in EnvironmentNames |-> ValidConfig] /\ EnvironmentInit
SwitchIdle == SwitchInit
AuditIdle == odClient = "MainnetClient" /\ odSimulation = FALSE /\ AuditInit
GateIdle == gtEnvironment = "testnet" /\ gtBalance = 0 /\ gtCount = 0 /\ GateInit
FilterIdle == fqOrderSize = 10 /\ fqPrice = 3 /\ fqSymbolInfo = [lotSize |-> [present |-> FALSE, minQty |-> RInt(0), maxQty |-> RInt(0), stepSize |-> RInt(0)], notional |-> [present |-> FALSE, minNotional |-> RInt(0)]] /\ FilterInit
BuyIdle == BuyInit
SweepIdle == sweepActive = {} /\ SweepInit
TimerIdle == TimerInit
CostIdle == ctEnvironment = "testnet" /\ ctBalance = 0 /\ ctCount = 0 /\ ctPrice = 3 /\ ctSymbolInfo = [lotSize |-> [present |-> FALSE, minQty |-> RInt(0), maxQty |-> RInt(0), stepSize |-> RInt(0)], notional |-> [present |-> FALSE, minNotional |-> RInt(0)]] /\ CostInit
SimIdle == smSimulation = FALSE /\ smEnvironment = "testnet" /\ smUseOCO = FALSE /\ SimInit
ProfileIdle == pfValid = [n \in ProfileNames |-> TRUE] /\ pfManager = "testnet" /\ ProfileInit
SocketIdle == skMode = "none" /\ SocketInit
AuxIdle == EntryIdle /\ CeilingIdle /\ ReconcileIdle /\ ListingIdle
    /\ RequestIdle /\ PollingIdle /\ ParityIdle /\ EnvironmentIdle
    /\ SwitchIdle /\ AuditIdle /\ GateIdle /\ FilterIdle /\ BuyIdle
    /\ SweepIdle /\ TimerIdle /\ CostIdle /\ SimIdle /\ ProfileIdle
    /\ SocketIdle

MonitorSpecInit == MonitorInit /\ RiskIdle /\ LimiterIdle /\ MainnetIdle /\ TradingIdle /\ AuxIdle
MonitorSpec == MonitorSpecInit /\ [][MonitorNext]_vars

RiskSpecInit == RiskInit /\ MonitorIdle /\ LimiterIdle /\ MainnetIdle /\ TradingIdle /\ AuxIdle
RiskSpec == RiskSpecInit /\ [][RiskNext]_vars

LimiterSpecInit == LimiterInit /\ MonitorIdle /\ RiskIdle /\ MainnetIdle /\ TradingIdle /\ AuxIdle
LimiterSpec == LimiterSpecInit /\ [][LimiterNext]_vars

MainnetSpecInit == MainnetInit /\ MonitorIdle /\ RiskIdle /\ LimiterIdle /\ TradingIdle /\ AuxIdle
MainnetSpec == MainnetSpecInit /\ [][MainnetNext]_vars

\* buy calls racing each other while no position is being closed
BuySpecInit == TradingInit /\ MonitorIdle /\ RiskIdle /\ LimiterIdle /\ MainnetIdle /\ AuxIdle
BuySpec == BuySpecInit /\ [][BuyNext]_vars

\* one position from its buy call to its close
LifecycleSpecInit ==
    TradingStart({1}) /\ MonitorIdle /\ RiskIdle /\ LimiterIdle /\ MainnetIdle /\ AuxIdle
LifecycleSpec == LifecycleSpecInit /\ [][TradingNext]_vars

EntrySpecInit ==
    EntryInit /\ CoreIdle /\ CeilingIdle /\ ReconcileIdle /\ ListingIdle
        /\ RequestIdle /\ PollingIdle /\ ParityIdle /\ EnvironmentIdle
        /\ SwitchIdle /\ AuditIdle /\ GateIdle /\ FilterIdle /\ BuyIdle
        /\ SweepIdle /\ TimerIdle /\ CostIdle /\ SimIdle /\ ProfileIdle
        /\ SocketIdle
EntrySpec == EntrySpecInit /\ [][EntryNext]_vars

CeilingSpecInit ==
    CeilingInit /\ CoreIdle /\ EntryIdle /\ ReconcileIdle /\ ListingIdle
        /\ RequestIdle /\ PollingIdle /\ ParityIdle /\ EnvironmentIdle
        /\ SwitchIdle /\ AuditIdle /\ GateIdle /\ FilterIdle /\ BuyIdle
        /\ SweepIdle /\ TimerIdle /\ CostIdle /\ SimIdle /\ ProfileIdle
        /\ SocketIdle
CeilingSpec == CeilingSpecInit /\ [][CeilingNext]_vars

\* the passes keep running: a step of a pass that can be taken is taken
ReconcileSpecInit ==
    ReconcileInit /\ CoreIdle /\ EntryIdle /\ CeilingIdle /\ ListingIdle
        /\ RequestIdle /\ PollingIdle /\ ParityIdle /\ EnvironmentIdle
        /\ SwitchIdle /\ AuditIdle /\ GateIdle /\ FilterIdle /\ BuyIdle
        /\ SweepIdle /\ TimerIdle /\ CostIdle /\ SimIdle /\ ProfileIdle
        /\ SocketIdle
ReconcileSpec == ReconcileSpecInit /\ [][ReconcileNext]_vars /\ WF_vars(ReconcilePass)

ListingSpecInit ==
    ListingInit /\ CoreIdle /\ EntryIdle /\ CeilingIdle /\ ReconcileIdle
        /\ RequestIdle /\ PollingIdle /\ ParityIdle /\ EnvironmentIdle
        /\ SwitchIdle /\ AuditIdle /\ GateIdle /\ FilterIdle /\ BuyIdle
        /\ SweepIdle /\ TimerIdle /\ CostIdle /\ SimIdle /\ ProfileIdle
        /\ SocketIdle
ListingSpec == ListingSpecInit /\ [][ListingNext]_vars

RequestSpecInit ==
    RequestInit /\ CoreIdle /\ EntryIdle /\ CeilingIdle /\ ReconcileIdle
        /\ ListingIdle /\ PollingIdle /\ ParityIdle /\ EnvironmentIdle
        /\ SwitchIdle /\ AuditIdle /\ GateIdle /\ FilterIdle /\ BuyIdle
        /\ SweepIdle /\ TimerIdle /\ CostIdle /\ SimIdle /\ ProfileIdle
        /\ SocketIdle
RequestSpec == RequestSpecInit /\ [][RequestNext]_vars

PollingSpecInit ==
    PollingInit /\ CoreIdle /\ EntryIdle /\ CeilingIdle /\ ReconcileIdle
        /\ ListingIdle /\ RequestIdle /\ ParityIdle /\ EnvironmentIdle
        /\ SwitchIdle /\ AuditIdle /\ GateIdle /\ FilterIdle /\ BuyIdle
        /\ SweepIdle /\ TimerIdle /\ CostIdle /\ SimIdle /\ ProfileIdle
        /\ SocketIdle
PollingSpec == PollingSpecInit /\ [][PollingNext]_vars

ParitySpecInit ==
    ParityInit /\ CoreIdle /\ EntryIdle /\ CeilingIdle /\ ReconcileIdle
        /\ ListingIdle /\ RequestIdle /\ PollingIdle /\ EnvironmentIdle
        /\ SwitchIdle /\ AuditIdle /\ GateIdle /\ FilterIdle /\ BuyIdle
        /\ SweepIdle /\ TimerIdle /\ CostIdle /\ SimIdle /\ ProfileIdle
        /\ SocketIdle
ParitySpec == ParitySpecInit /\ [][ParityNext]_vars

EnvironmentSpecInit ==
    EnvironmentInit /\ CoreIdle /\ EntryIdle /\ CeilingIdle /\ ReconcileIdle
        /\ ListingIdle /\ RequestIdle /\ PollingIdle /\ ParityIdle
        /\ SwitchIdle /\ AuditIdle /\ GateIdle /\ FilterIdle /\ BuyIdle
        /\ SweepIdle /\ TimerIdle /\ CostIdle /\ SimIdle /\ ProfileIdle
        /\ SocketIdle
EnvironmentSpec == EnvironmentSpecInit /\ [][EnvironmentNext]_vars

SwitchSpecInit ==
    SwitchInit /\ CoreIdle /\ EntryIdle /\ CeilingIdle /\ ReconcileIdle
        /\ ListingIdle /\ RequestIdle /\ PollingIdle /\ ParityIdle
        /\ EnvironmentIdle /\ AuditIdle /\ GateIdle /\ FilterIdle /\ BuyIdle
        /\ SweepIdle /\ TimerIdle /\ CostIdle /\ SimIdle /\ ProfileIdle
        /\ SocketIdle
SwitchSpec == SwitchSpecInit /\ [][SwitchNext]_vars

AuditSpecInit ==
    AuditInit /\ CoreIdle /\ EntryIdle /\ CeilingIdle /\ ReconcileIdle
        /\ ListingIdle /\ RequestIdle /\ PollingIdle /\ ParityIdle
        /\ EnvironmentIdle /\ SwitchIdle /\ GateIdle /\ FilterIdle /\ BuyIdle
        /\ SweepIdle /\ TimerIdle /\ CostIdle /\ SimIdle /\ ProfileIdle
        /\ SocketIdle
AuditSpec == AuditSpecInit /\ [][AuditNext]_vars

GateSpecInit ==
    GateInit /\ CoreIdle /\ EntryIdle /\ CeilingIdle /\ ReconcileIdle
        /\ ListingIdle /\ RequestIdle /\ PollingIdle /\ ParityIdle
        /\ EnvironmentIdle /\ SwitchIdle /\ AuditIdle /\ FilterIdle /\ BuyIdle
        /\ SweepIdle /\ TimerIdle /\ CostIdle /\ SimIdle /\ ProfileIdle
        /\ SocketIdle
GateSpec == GateSpecInit /\ [][GateNext]_vars

FilterSpecInit ==
    FilterInit /\ CoreIdle /\ EntryIdle /\ CeilingIdle /\ ReconcileIdle
        /\ ListingIdle /\ RequestIdle /\ PollingIdle /\ ParityIdle
        /\ EnvironmentIdle /\ SwitchIdle /\ AuditIdle /\ GateIdle /\ BuyIdle
        /\ SweepIdle /\ TimerIdle /\ CostIdle /\ SimIdle /\ ProfileIdle
        /\ SocketIdle
FilterSpec == FilterSpecInit /\ [][FilterNext]_vars

BuyFailureSpecInit ==
    BuyInit /\ CoreIdle /\ EntryIdle /\ CeilingIdle /\ ReconcileIdle
        /\ ListingIdle /\ RequestIdle /\ PollingIdle /\ ParityIdle
        /\ EnvironmentIdle /\ SwitchIdle /\ AuditIdle /\ GateIdle
        /\ FilterIdle /\ SweepIdle /\ TimerIdle /\ CostIdle /\ SimIdle
        /\ ProfileIdle /\ SocketIdle
BuyFailureSpec == BuyFailureSpecInit /\ [][BuyFailureNext]_vars

SweepSpecInit ==
    SweepInit /\ CoreIdle /\ EntryIdle /\ CeilingIdle /\ ReconcileIdle
        /\ ListingIdle /\ RequestIdle /\ PollingIdle /\ ParityIdle
        /\ EnvironmentIdle /\ SwitchIdle /\ AuditIdle /\ GateIdle
        /\ FilterIdle /\ BuyIdle /\ TimerIdle /\ CostIdle /\ SimIdle
        /\ ProfileIdle /\ SocketIdle
SweepSpec == SweepSpecInit /\ [][SweepNext]_vars

TimerSpecInit ==
    TimerInit /\ CoreIdle /\ EntryIdle /\ CeilingIdle /\ ReconcileIdle
        /\ ListingIdle /\ RequestIdle /\ PollingIdle /\ ParityIdle
        /\ EnvironmentIdle /\ SwitchIdle /\ AuditIdle /\ GateIdle
        /\ FilterIdle /\ BuyIdle /\ SweepIdle /\ CostIdle /\ SimIdle
        /\ ProfileIdle /\ SocketIdle
TimerSpec == TimerSpecInit /\ [][TimerNext]_vars

CostSpecInit ==
    CostInit /\ CoreIdle /\ EntryIdle /\ CeilingIdle /\ ReconcileIdle
        /\ ListingIdle /\ RequestIdle /\ PollingIdle /\ ParityIdle
        /\ EnvironmentIdle /\ SwitchIdle /\ AuditIdle /\ GateIdle
        /\ FilterIdle /\ BuyIdle /\ SweepIdle /\ TimerIdle /\ SimIdle
        /\ ProfileIdle /\ SocketIdle
CostSpec == CostSpecInit /\ [][CostNext]_vars

SimSpecInit ==
    SimInit /\ CoreIdle /\ EntryIdle /\ CeilingIdle /\ ReconcileIdle
        /\ ListingIdle /\ RequestIdle /\ PollingIdle /\ ParityIdle
        /\ EnvironmentIdle /\ SwitchIdle /\ AuditIdle /\ GateIdle
        /\ FilterIdle /\ BuyIdle /\ SweepIdle /\ TimerIdle /\ CostIdle
        /\ ProfileIdle /\ SocketIdle
SimSpec == SimSpecInit /\ [][SimNext]_vars

ProfileSpecInit ==
    ProfileInit /\ CoreIdle /\ EntryIdle /\ CeilingIdle /\ ReconcileIdle
        /\ ListingIdle /\ RequestIdle /\ PollingIdle /\ ParityIdle
        /\ EnvironmentIdle /\ SwitchIdle /\ AuditIdle /\ GateIdle
        /\ FilterIdle /\ BuyIdle /\ SweepIdle /\ TimerIdle /\ CostIdle
        /\ SimIdle /\ SocketIdle
ProfileSpec == ProfileSpecInit /\ [][ProfileNext]_vars

\* the timers of the monitor that are pending fire
SocketSpecInit ==
    SocketInit /\ CoreIdle /\ EntryIdle /\ CeilingIdle /\ ReconcileIdle
        /\ ListingIdle /\ RequestIdle /\ PollingIdle /\ ParityIdle
        /\ EnvironmentIdle /\ SwitchIdle /\ AuditIdle /\ GateIdle
        /\ FilterIdle /\ BuyIdle /\ SweepIdle /\ TimerIdle /\ CostIdle
        /\ SimIdle /\ ProfileIdle
SocketSpec == SocketSpecInit /\ [][SocketNext]_vars /\ WF_vars(SocketTimer)

(***************************************************************************)
(* Claims about the monitors.                                              *)
(***************************************************************************)
QuoteSymbolsOf(tickers) == {s \in SeqToSet(tickers) : EndsWith(s, QuoteAsset)}

\* C5: in a sequence of ticker updates that each contain the same symbol,
\* unknown before the first of them, newListing is emitted for the symbol
\* exactly once, and the symbol is in the known-symbol set afterwards.
C5_OneEventPerRun ==
    \A s \in Symbols :
        /\ wsRun[s] >= 0 => (wsRun[s] = 1 /\ s \in wsKnownSymbols)
        /\ pollRun[s] >= 0 => (pollRun[s] = 1 /\ s \in pollKnownSymbols)

\* C5 witness: a second mini-ticker update of a run was processed, and emitted
\* nothing for the symbol the first update announced.
C5_Witness ==
    /\ lastUpdate.src = "miniTicker"
    /\ "NEWUSDT" \in lastUpdate.before
    /\ "NEWUSDT" \in SeqToSet(lastUpdate.tickers)
    /\ "NEWUSDT" \notin wsSeeded
    /\ wsRun["NEWUSDT"] = 1
    /\ wsEmitted["NEWUSDT"] = 1

\* C6: between start() and stop() of a monitor, newListing is emitted at most
\* once per symbol, and never for a symbol that start() seeded.
C6_AtMostOncePerSymbol ==
    \A s \in Symbols :
        /\ wsEmitted[s] <= 1
        /\ pollEmitted[s] <= 1
        /\ s \in wsSeeded => wsEmitted[s] = 0
        /\ s \in pollSeeded => pollEmitted[s] = 0

\* C7: processing a snapshot S against the known set K emits one event for
\* each quote-asset symbol of S \ K and for no other symbol, and the known set
\* afterwards contains K and those symbols.
C7_SnapshotDiff ==
    lastUpdate.src # "none" =>
        LET new == QuoteSymbolsOf(lastUpdate.tickers) \ lastUpdate.before IN
        /\ \A s \in Symbols :
              Occurrences(lastUpdate.events, s) = IF s \in new THEN 1 ELSE 0
        /\ (lastUpdate.before \cup new) \subseteq lastUpdate.after

(***************************************************************************)
(* Claims about the risk sizing engine.                                    *)
(***************************************************************************)
\* C8: for every balance B >= 0 and every open-position count N >= 0,
\* calculateOrderSize(B, N) is at most maxOrderSize, at most
\* B * maxPositionRiskPercent and at most B * useOfBalance.
C8_OrderSizeBounded ==
    riskDone =>
        /\ RLeq(riskOrderSize, RInt(MaxOrderSize))
        /\ RLeq(riskOrderSize, RMul(RInt(riskBalance), MaxPositionRiskPercent))
        /\ RLeq(riskOrderSize, RMul(RInt(riskBalance), UseOfBalance))

\* C8 witness: a balance large enough for the base order size to be the
\* result, with other positions open.
C8_Witness ==
    /\ riskDone
    /\ riskCount >= 1
    /\ riskBalance > 0
    /\ REq(riskOrderSize, RInt(BaseOrderSize))

(***************************************************************************)
(* Claims about the weight rate limiter.                                   *)
(***************************************************************************)
\* C9: the weight dispatched within one window of the rate limiter never
\* exceeds the limit, also when several calls are suspended in
\* checkRateLimit at the same time.
C9_WindowWeightWithinLimit ==
    (rlNow - rlWindowStart <= WindowMs) => rlWindowWeight <= WeightLimit

(***************************************************************************)
(* Claims about the real-money client.                                     *)
(***************************************************************************)
\* C10: on the real-money client, with a daily-loss ceiling of 100 and a
\* cumulative daily loss of 95, createOrder blocks an order that risks 10
\* and never sends it to the exchange.
C10_LossCeilingBlocks ==
    ( /\ DailyLossLimit = 100
      /\ ~mnSimulationMode
      /\ mnLastOrder.outcome # "none"
      /\ mnLastOrder.lossBefore = 95
      /\ mnLastOrder.quantity * mnLastOrder.price = 10 )
        => mnLastOrder.outcome = "blocked"

(***************************************************************************)
(* Claims about the position lifecycle.                                    *)
(***************************************************************************)
\* an accepted entry order whose position record is not closed
EntryOrderOpen(b) ==
    positions[b].status # "NONE" /\ dbPositions[b].status # "CLOSED"

\* C1: at most one entry order is placed and at most one non-CLOSED
\* position record exists per symbol, also when two executeBuy calls for
\* the symbol interleave at their awaits.
C1_OnePositionPerSymbol ==
    \A s \in TradeSymbols :
        /\ Cardinality({b \in Buys : buySymbol[b] = s /\ EntryOrderOpen(b)}) <= 1
        /\ Cardinality({b \in Buys : buySymbol[b] = s /\ IsOpen(dbPositions[b])}) <= 1

StatusMoves ==
    {<<"NONE", "OPEN">>}
        \cup (({"OPEN"} \cup SubStatuses) \X (SubStatuses \cup {"CLOSED"}))

\* one step of a position object or row, from before to after
LifecycleStep(before, after) ==
    /\ before.status # after.status => <<before.status, after.status>> \in StatusMoves
    /\ before.status = "CLOSED" => after.closes = before.closes

\* C2: a position's status moves only NONE -> OPEN -> (BREAK_EVEN |
\* IN_PROFIT | IN_LOSS)* -> CLOSED, and once it is CLOSED no step changes
\* its status or its exit fields, in memory or in the Position table.
C2_ClosedIsFinal ==
    [][\A b \in Buys :
          /\ LifecycleStep(positions[b], positions'[b])
          /\ LifecycleStep(dbPositions[b], dbPositions'[b])]_vars

\* the exchange accepted one bracket order or both separate orders
Protected(b) ==
    \/ tpSl[b].oco = "accepted"
    \/ tpSl[b].tp = "accepted" /\ tpSl[b].sl = "accepted"

\* C3: once the entry handling of a buy call has finished, its position, if
\* it is not CLOSED, has one accepted bracket order or two accepted separate
\* protection orders, never none.
C3_OpenPositionProtected ==
    \A b \in Buys : (buyPc[b] = "done" /\ IsOpen(dbPositions[b])) => Protected(b)

\* C4: when placeOCOOrder fails, setTakeProfitStopLoss attempts both separate
\* orders, and if either of them fails it neither returns success: true nor
\* emits tpSlSet.
C4_FallbackFailureReported ==
    \A b \in Buys :
        (buyPc[b] = "done" /\ tpSl[b].oco = "rejected") =>
            /\ tpSl[b].tp # "none" /\ tpSl[b].sl # "none"
            /\ (tpSl[b].tp = "rejected" \/ tpSl[b].sl = "rejected")
                   => tpSl[b].result # "success"

(***************************************************************************)
(* Claims about the entry order and the profit and loss.                   *)
(***************************************************************************)
\* C11: when a position is closed, the recorded pnl equals
\* (exitPrice - entryPrice) * quantity and pnlPercent equals
\* (exitPrice / entryPrice - 1) * 100, entryPrice being the price the entry
\* was filled at.
C11_ClosedPnL ==
    (enPc = "closed" /\ enOrder.status = "FILLED") =>
        LET exit == enPosition.exitPrice.value[1]
            qty == enOrder.executedQty.value[1]
        IN /\ enPosition.pnl.kind = "number"
           /\ enPosition.pnlPercent.kind = "number"
           /\ REq(enPosition.pnl.value, RInt((exit - enFill) * qty))
           /\ enPosition.pnlPercent.value[1] * enFill =
                  (exit - enFill) * 100 * enPosition.pnlPercent.value[2]

\* C12: a position is saved and added to activePositions only after the
\* entry order reports an executed quantity greater than 0.
C12_PositionOnlyOnFill ==
    enRegistered => enOrder.executedQty.value[1] > 0

(***************************************************************************)
(* Claims about the position ceiling.                                      *)
(***************************************************************************)
\* C13: executeBuy places no entry order when activePositions.size is at
\* the ceiling of the active environment, so that the number of open
\* positions never exceeds it, from the first executeBuy after initialize()
\* on and when executeBuy calls for different symbols interleave.
C13_NoOrderAtCeiling ==
    [][\A s \in CeilingSymbols :
          cpOrders'[s] > cpOrders[s] =>
              Cardinality(cpActive) < MaxSimultaneousPositions(cpEnvironment)]_vars

(***************************************************************************)
(* Claims about reconciliation.                                            *)
(***************************************************************************)
\* C14: if either protection order of an open position is FILLED on the
\* exchange, then, while reconciliation passes keep running and exchange
\* calls succeed, the position is eventually CLOSED.
C14_FilledEventuallyClosed ==
    (rcTp = "FILLED" \/ rcSl = "FILLED") ~> (rcStatus = "CLOSED")

\* C15: reconciliation of a position never runs concurrently with itself,
\* no second pass or closePosition for the position starts while a pass is
\* awaiting exchange calls, and closePosition runs at most once per position.
C15_OnePassPerPosition ==
    /\ \A t1 \in Timers, t2 \in Timers :
           (t1 # t2 /\ passPc[t1] # "idle" /\ passPc[t2] # "idle")
               => passPosition[t1] # passPosition[t2]
    /\ \A b \in Buys : positions[b].closes <= 1


\* C36: when a position is CLOSED, by a fill of its take-profit or
\* stop-loss order or by a manual close, none of its protection orders is
\* still open on the exchange.
C36_NoProtectionLeftOpen ==
    rcStatus = "CLOSED" => (rcTp # "NEW" /\ rcSl # "NEW")

C17_BanNeverRetried ==
    rqLast = 418 => rqPc = "thrown"

\* C18: a 4xx response other than 429 and 418 is not retried: once a request
\* has been answered with one it is not sent again and the error is surfaced
\* to the caller.
C18_ClientErrorNeverRetried ==
    (rqLast \in {400, 404}) => rqPc = "thrown"


\* C32: a request is sent at most 1 + retry.maxAttempts times, also when
\* the exchange keeps answering 429 or keeps failing, and then its error is
\* returned to the caller.
C32_DispatchesBounded ==
    rqDispatched <= 1 + RetryMaxAttempts

(***************************************************************************)
(* Claims about the polling monitor with its check in flight.              *)
(***************************************************************************)
\* C22: when stop() is called while checkForNewListings awaits the 24h
\* ticker snapshot, the snapshot is discarded when it arrives: after stop()
\* has returned no newListing is emitted and the known symbols stay as
\* stop() left them.
C22_LateSnapshotDiscarded ==
    pmStopped => (pmLate = 0 /\ pmKnownSymbols = {})

(***************************************************************************)
(* Claims about the parity of the two monitors.                            *)
(***************************************************************************)
\* C23: started from the same exchange snapshot and fed the same full ticker
\* snapshots, the polling path and the push path emit the same newListing
\* and delisting events and hold the same known symbols.
C23_PathsAgree ==
    /\ paWsKnown = paPollKnown
    /\ paWsEvents = paPollEvents
    /\ paWsDelisted = paPollDelisted


(***************************************************************************)
(* Claims about the symbols the seeding filter leaves out.                 *)
(***************************************************************************)
\* a quote-asset symbol that loadInitialSymbols leaves out of the known
\* symbols: its base asset is a stablecoin or an excluded token
SeedingExcludes(s) ==
    /\ EndsWith(s, QuoteAsset)
    /\ \/ ExcludeStablecoins /\ BaseAsset(s) \in Stablecoins \cap PollingStablecoins
       \/ BaseAsset(s) \in ExcludeTokens

\* C38: a symbol whose base asset is a stablecoin, with the exclusion of
\* stablecoins on, or an excluded token never produces a newListing event,
\* on the WebSocket monitor or on the polling monitor.
C38_ExcludedNeverListed ==
    \A s \in Symbols :
        SeedingExcludes(s) => (wsEmitted[s] = 0 /\ pollEmitted[s] = 0)

(***************************************************************************)
(* Claims about the environment profiles.                                  *)
(***************************************************************************)
\* C24: switchEnvironment(name) either returns with currentEnvironment =
\* name, the target having validated, or throws with currentEnvironment as
\* it was before the call, the name being unknown or the validation having
\* failed; the target is never left current when its validation failed.
C24_SwitchIsAtomic ==
    /\ emOutcome = "returned" =>
           /\ emCurrent = emName
           /\ ValidateEnvironment(emConfig, emName).isValid
    /\ emOutcome = "threw" =>
           /\ emCurrent = emBefore
           /\ ~ValidateEnvironment(emConfig, emName).isValid

\* a switch to the other, known environment has thrown because a key of
\* the target is too short, and the old environment is current
C24_Witness ==
    /\ emOutcome = "threw"
    /\ emName \in EnvironmentNames
    /\ emName # emBefore
    /\ emCurrent = emBefore
    /\ <<"short", "apiKey">> \in ValidateEnvironment(emConfig, emName).errors

(***************************************************************************)
(* Claims about switching the trading service between environments.        *)
(***************************************************************************)
\* C25: when TradingService.switchEnvironment fails, the profile active
\* before the call remains in effect: binanceClient and orderManager are
\* those from before the call, isActive has its previous value and the
\* reconciliation timer runs if it ran before.
C25_FailedSwitchKeepsProfile ==
    swOutcome = "threw" =>
        /\ swClient = swBefore.client
        /\ swOrderManager = swBefore.orderManager
        /\ swIsActive = swBefore.isActive
        /\ swInterval = swBefore.interval

(***************************************************************************)
(* Claims about the orders of the real-money profile.                      *)
(***************************************************************************)
\* C26: on the real-money profile every order sent to the exchange, be it
\* the market entry, the limit take-profit, the stop-loss or the OCO
\* bracket, has an ORDER_ATTEMPT audit record before it and exactly one of
\* ORDER_SUCCESS, ORDER_BLOCKED and ORDER_ERROR after it.
C26_EveryOrderAudited ==
    odLast.dispatched =>
        /\ Len(odLast.audit) = 2
        /\ odLast.audit[1] = "ORDER_ATTEMPT"
        /\ odLast.audit[2] \in {"ORDER_SUCCESS", "ORDER_BLOCKED", "ORDER_ERROR"}

\* C27: on the real-money profile no order whose notional, the quantity
\* times the price (the market price for a market order), exceeds the
\* maximum value of an order is sent to the exchange.
C27_NoOrderAboveMaximum ==
    odLast.dispatched => odLast.notional <= MaxOrderValue

(***************************************************************************)
(* Claims about the risk test before the entry order.                      *)
(***************************************************************************)
\* C28: an entry market order is sent only when isRiskAcceptable(balance,
\* open position count, order size) is true: the count is below the
\* ceiling of positions, the size is within the usable balance, and the
\* size times (count + 1) is within the ceiling of the account risk.
C28_OrderOnlyWhenRiskAcceptable ==
    gtPlaced => IsRiskAcceptable(gtBalance, gtCount, gtOrderSize)

(***************************************************************************)
(* Claims about the quantity of the entry order.                           *)
(***************************************************************************)
\* C29: the quantity of an entry order that is sent satisfies the filters
\* of the symbol: it lies between minQty and maxQty, it is a multiple of
\* stepSize, and the quantity times the price is at least minNotional.
C29_QuantityMeetsFilters ==
    fqSubmitted => MeetsFilters(fqQuantity, fqPrice, fqSymbolInfo)

(***************************************************************************)
(* Claims about the failures of the entry path.                            *)
(***************************************************************************)
\* C30: an executeBuy call in which getSymbolInfo fails or finds nothing,
\* the order is rejected or savePosition fails never throws: it ends with
\* an unsuccessful result after one saveError call, with activePositions
\* and the stored positions as they were when the call began.
C30_FailureLeavesNoPosition ==
    /\ byOutcome.result # "thrown"
    /\ byOutcome.failedAt # "none" =>
          /\ byOutcome.result = "failure"
          /\ bySaveErrors = 1
          /\ byActive = byBefore.active
          /\ byStored = byBefore.stored

\* a call that failed in savePosition, after the order was filled, while
\* another position is open
C30_Witness ==
    /\ byOutcome = [result |-> "failure", failedAt |-> "saving"]
    /\ byPc = "idle"
    /\ byActive # {}
    /\ bySymbol \notin byActive

(***************************************************************************)
(* Claims about the errors inside a checkPositions pass.                   *)
(***************************************************************************)
SnapshotSet == {sweepSnapshot[i] : i \in 1..Len(sweepSnapshot)}

\* C31: an error thrown while one position is checked does not end the
\* pass: when the pass has ended every position of its snapshot has been
\* checked, among them the positions whose check threw in the pass before
\* and that were still open.
C31_ErrorDoesNotStopPass ==
    (sweepPc = "idle" /\ sweepPasses > 0) =>
        /\ SnapshotSet \subseteq sweepChecked
        /\ sweepDue \subseteq sweepChecked

\* a pass has ended in which the check of the first position threw and a
\* position that failed in the pass before was checked again
C31_Witness ==
    /\ sweepPc = "idle"
    /\ sweepPasses > 1
    /\ Len(sweepSnapshot) > 1
    /\ sweepSnapshot[1] \in sweepFailed
    /\ sweepDue # {}

(***************************************************************************)
(* Claims about the timer of the position monitoring.                      *)
(***************************************************************************)
\* C33: at most one interval timer of the position monitoring exists at
\* any time, and after pause() or stop() no pass starts until the service
\* is resumed or started again.
C33_OneMonitoringTimer ==
    /\ Cardinality(mtLive) <= 1
    /\ ~mtIsActive => ~mtPassSinceStop

(***************************************************************************)
(* Claims about the cost of the entry order.                               *)
(***************************************************************************)
\* C37: the quantity times the price of an entry order that is sent is at
\* most the smallest of maxOrderSize, the balance times
\* maxPositionRiskPercent and the balance times useOfBalance.
C37_CostWithinRiskSize ==
    ctSubmitted =>
        RLeq(RMul(ctQuantity, RInt(ctPrice)), RiskBoundedSize(ctBalance))

(***************************************************************************)
(* C39: while the simulation-mode flag is on, no order-creating and no     *)
(* order-cancelling request is sent to the exchange, on the testnet and    *)
(* on the mainnet profile, by the listing handlers, executeBuy,            *)
(* setTakeProfitStopLoss or closePosition.                                 *)
(***************************************************************************)
C39_SimulationSendsNoOrder ==
    smSimulation => (smCreates = 0 /\ smCancels = 0)

\* under the flag a buy, its protection and its close have all run and
\* were answered with mocked results
C39_Witness ==
    /\ smSimulation
    /\ smPc = "idle"
    /\ smMocked >= 3
    /\ smReads >= 1

(***************************************************************************)
(* C40: after every switch of the bot's environment, successful or failed, *)
(* BinanceClientFactory.currentEnvironment equals                          *)
(* EnvironmentManager.currentEnvironment, so the client used for orders    *)
(* and the profile that selects the listing handler are the same profile.  *)
(***************************************************************************)
C40_FactoryMatchesManager ==
    pfOutcome # "none" => pfFactory = pfManager

(***************************************************************************)
(* Claims about the WebSocket connection and the fallback to polling.      *)
(***************************************************************************)
\* C19: when the reconnect attempts of the WebSocket monitor reach the
\* configured maximum the monitor reports reconnectFailed, and the polling
\* monitor eventually is running.
C19_FailureStartsPolling ==
    skFailed ~> skPollRunning

\* C20: when a heartbeat interval ends while the monitor is connected and no
\* liveness signal has arrived for longer than the heartbeat timeout, since
\* the last one or since the connection opened, the heartbeat callback
\* terminates the connection and starts a reconnect.
C20_SilenceTerminates ==
    [][(/\ skNow' > skNow
        /\ skIsConnected
        /\ skNow' - skQuietSince > HeartbeatTimeout)
       => (/\ skSocket' = "closing"
           /\ (skReconnectAttempts' > skReconnectAttempts \/ skFailed'))]_vars

\* C21: after stop() has returned no timer of the monitor is pending and no
\* connection is open or being opened: a reconnect that handleReconnect
\* scheduled before stop() does not call connect() afterwards.
C21_StopCancelsAll ==
    skStopped =>
        /\ skTimers = 0
        /\ skTimeouts = 0
        /\ skSocket \notin {"connecting", "open"}
        /\ ~skIsConnected


\* C34: while the reconnect attempts are not used up, a close of the
\* connection sets a timer for a new connect() with the delay
\* reconnect.delay times the number of the attempt; the attempt counter
\* never exceeds reconnect.maxAttempts and is 0 after a connection opened.
C34_ReconnectBackoff ==
    /\ [](skReconnectAttempts <= ReconnectMaxAttempts)
    /\ [][/\ (/\ skSocket # "closed"
              /\ skSocket' = "closed"
              /\ skReconnectAttempts < ReconnectMaxAttempts)
             => (/\ skTimers' = skTimers + 1
                 /\ skReconnectAttempts' = skReconnectAttempts + 1
                 /\ skDelay' = ReconnectDelay * skReconnectAttempts')
          /\ (skSocket # "open" /\ skSocket' = "open")
             => skReconnectAttempts' = 0]_vars

\* the connection was lost after one attempt had been used and not reset,
\* and the second reconnect is pending with twice the delay
C34_Witness ==
    /\ skSocket = "closed"
    /\ skReconnectAttempts = 2
    /\ skTimers > 0
    /\ skDelay = 2 * ReconnectDelay

\* C35: at most one reconnect timer is pending at any time: a heartbeat
\* timeout or a failed connect attempt sets exactly one.
C35_OneReconnectPending ==
    skTimers <= 1

====
